---- MODULE Spec2Model ----
(***************************************************************************)
(* A model of the Cheval sidecar (src/adapters): the HMAC middleware and   *)
(* its nonce cache (cheval_server.py) and the file-persisted circuit       *)
(* breaker (circuit_breaker.py).                                           *)
(*                                                                         *)
(* Time is counted in whole seconds.  `mono` is time.monotonic() (read by  *)
(* the nonce cache), `wall` is the wall clock (read by the timestamp check *)
(* through datetime.now and by the circuit breaker through time.time()).   *)
(* The wall clock reads seconds since the epoch and is therefore positive. *)
(***************************************************************************)
EXTENDS Integers, Sequences, FiniteSets, TLC

VARIABLES
  secret,       \* CHEVAL_HMAC_SECRET, read once at import
  secretPrev,   \* CHEVAL_HMAC_SECRET_PREV, read once at import
  mono,         \* time.monotonic()
  wall,         \* datetime.now(timezone.utc) / time.time()
  cache,        \* nonce_cache._cache: the OrderedDict as a sequence, oldest first
  pools,        \* pool_manager._pools: the clients, each under its provider name
  ledger,       \* number of lines appended to the cost ledger
  pc,           \* position of the request in flight: idle, pending, done
  req,          \* the request in flight
  resp,         \* the response to it, and what serving it did
  admitTime,    \* history: mono time of each nonce's latest admission, -1 if none
  admitSince,   \* history: admissions of other nonces since then (capped)
  cbFile,       \* .run/circuit-breaker-<provider>.json: <<>> while the file
                \* does not exist, else <<the state it holds>>
  cbLast,       \* history: the latest circuit-breaker call and what it returned
  cbStreak,     \* history: record_failure calls since CLOSED with failure_count 0
  cbSince,      \* history: record_failure calls since the latest record_success
  cbProbe,      \* history: the check_state calls that returned HALF_OPEN since
                \* the latest record_success or record_failure
  retry_config, \* invoke_with_retry_async: max_retries and retryable_status_codes
  attempt,      \* its loop variable
  last_error,   \* its last_error: <<>> for None, else <<the ChevalError>>
  rtResult,     \* what the call has done: running, returned or raised
  rtOutcomes,   \* history: the outcome of each request it has sent, in order
  sseStream,    \* sse_decode: the bytes the stream delivers in all
  ssePos,       \* how many of them have been delivered, in whole chunks
  sseDec,       \* the decoder's locals and the events it has yielded
  sseDone,      \* the stream has ended and the generator has finished
  call,         \* a library function being called: <<>> when none, else
                \* <<its name and its arguments, which it may mutate>>;
                \* with several callers or tasks at once, the locals of each
  callRet       \* <<>> until it ends, then <<what it returned or raised>>

vars == <<secret, secretPrev, mono, wall, cache, pools, ledger, pc, req, resp,
          admitTime, admitSince, cbFile, cbLast, cbStreak, cbSince, cbProbe,
          retry_config, attempt, last_error, rtResult, rtOutcomes,
          sseStream, ssePos, sseDec, sseDone, call, callRet>>

authVars == <<secret, secretPrev, mono, cache, pools, ledger, pc, req, resp,
              admitTime, admitSince>>

cbVars == <<cbFile, cbLast, cbStreak, cbSince, cbProbe>>

retryVars == <<retry_config, attempt, last_error, rtResult, rtOutcomes>>

callVars == <<call, callRet>>

\* The state of the parts a breaker call or a request does not touch.
otherVars == <<retryVars, sseStream, ssePos, sseDec, sseDone, callVars>>

sseVars == <<sseStream, ssePos, sseDec, sseDone>>

-----------------------------------------------------------------------------
(* Bounds and scaled configuration.                                        *)

\* CHEVAL_HMAC_SKEW_SECONDS, scaled down from its default of 30.
SkewSeconds == 1

\* CHEVAL_NONCE_CACHE_SIZE, scaled down from its default of 10000.
NonceCacheMaxSize == 2

\* The last instant at which the authentication model lets time advance:
\* late enough for an entry admitted at the start to expire.
AuthMaxTime == SkewSeconds * 2 + 1

Abs(x) == IF x < 0 THEN -x ELSE x

Min(a, b) == IF a < b THEN a ELSE b

-----------------------------------------------------------------------------
(* Header values.                                                          *)

\* An x-cheval-issued-at value.  kind "utc" is an RFC 3339 instant with an
\* offset, denoting second t; "naive" is an ISO instant without an offset;
\* "garbage" does not parse; "empty" is the missing or empty header.
IssuedAt(kind, t) == [kind |-> kind, t |-> t]

Utc(t) == IssuedAt("utc", t)

IssuedEmpty == IssuedAt("empty", 0)

\* An x-cheval-signature value: plain text (ascii says whether every
\* character is ASCII), or the hex digest of an HMAC under `key` of `msg`.
TextSig(text, ascii) == [kind |-> "text", text |-> text, ascii |-> ascii,
                         key |-> "", msg |-> <<>>]

SigEmpty == TextSig("", TRUE)

\* hashlib.sha256(body).hexdigest(): a collision-free digest of the body.
sha256_hexdigest(body) == [sha256 |-> body]

\* hmac.new(key, msg, sha256).hexdigest(): an unforgeable, collision-free
\* tag; 64 hexadecimal characters, hence ASCII and non-empty.
hmac_hexdigest(key, msg) == [kind |-> "mac", text |-> "hex", ascii |-> TRUE,
                             key |-> key, msg |-> msg]

\* `not header` of dispatch's all([...]) test.
HeaderEmpty(sig) == sig.kind = "text" /\ sig.text = ""

\* The fields a caller signs.
Fields(method, path, body, issued_at, nonce, trace_id) ==
  [method |-> method, path |-> path, body |-> body, issued_at |-> issued_at,
   nonce |-> nonce, trace_id |-> trace_id]

\* Mutant: the canonical string without the path (not endpoint-bound).
build_canonical_no_path(method, path, body, issued_at, nonce, trace_id) ==
  <<method, sha256_hexdigest(body), issued_at, nonce, trace_id>>

\* The six fields joined by "\n".  Method, path and header values hold no
\* newline and the body enters as a hex digest, so the joined string
\* determines the six fields: it is modelled as their tuple.
build_canonical_phase3(method, path, body, issued_at, nonce, trace_id) ==
  <<method, path, sha256_hexdigest(body), issued_at, nonce, trace_id>>

\* What a caller holding `key` sends as the signature of fields f.
Sign(key, f) ==
  hmac_hexdigest(key, build_canonical_phase3(f.method, f.path, f.body,
                                             f.issued_at, f.nonce, f.trace_id))

-----------------------------------------------------------------------------
(* verify_hmac_phase3.  The result is "true", "false" or "raise"           *)
(* (hmac.compare_digest raises TypeError on a str that is not ASCII, and   *)
(* the function catches exceptions only around the timestamp check);       *)
(* `compared` lists the secrets a comparison was made under, in order.     *)

Verdict(result, compared) == [result |-> result, compared |-> compared]

\* Mutant: the skew bound taken strictly.
verify_hmac_strict_skew(method, path, body, signature, nonce, trace_id, issued_at, sec, sec_prev, skew_seconds, now) ==
  IF issued_at.kind # "utc" THEN Verdict("false", <<>>)
  ELSE IF Abs(now - issued_at.t) >= skew_seconds THEN Verdict("false", <<>>)
  ELSE LET canonical == build_canonical_phase3(method, path, body, issued_at,
                                               nonce, trace_id)
       IN  IF ~signature.ascii THEN Verdict("raise", <<sec>>)
           ELSE IF signature = hmac_hexdigest(sec, canonical)
                THEN Verdict("true", <<sec>>)
           ELSE IF sec_prev # ""
                THEN IF signature = hmac_hexdigest(sec_prev, canonical)
                     THEN Verdict("true", <<sec, sec_prev>>)
                     ELSE Verdict("false", <<sec, sec_prev>>)
           ELSE Verdict("false", <<sec>>)

verify_hmac_phase3(method, path, body, signature, nonce, trace_id, issued_at, sec, sec_prev, skew_seconds, now) ==
  \* fromisoformat raises ValueError on "" and on garbage; subtracting a
  \* naive instant from an aware one raises TypeError: both are caught.
  IF issued_at.kind # "utc" THEN Verdict("false", <<>>)
  ELSE IF Abs(now - issued_at.t) > skew_seconds THEN Verdict("false", <<>>)
  ELSE LET canonical == build_canonical_phase3(method, path, body, issued_at,
                                               nonce, trace_id)
       IN  IF ~signature.ascii THEN Verdict("raise", <<sec>>)
           ELSE IF signature = hmac_hexdigest(sec, canonical)
                THEN Verdict("true", <<sec>>)
           ELSE IF sec_prev # ""
                THEN IF signature = hmac_hexdigest(sec_prev, canonical)
                     THEN Verdict("true", <<sec, sec_prev>>)
                     ELSE Verdict("false", <<sec, sec_prev>>)
           ELSE Verdict("false", <<sec>>)

-----------------------------------------------------------------------------
(* LRUNonceCache.  An entry is [nonce, expiry]; the sequence is the        *)
(* OrderedDict in insertion order.                                         *)

Entry(nonce, expiry) == [nonce |-> nonce, expiry |-> expiry]

CacheNonces(c) == {c[i].nonce : i \in 1..Len(c)}

RECURSIVE evict_expired_nonstrict(_, _)
\* Mutant: an entry is dropped as soon as its deadline is reached.
evict_expired_nonstrict(c, now) ==
  IF c # <<>> /\ now >= Head(c).expiry
  THEN evict_expired_nonstrict(Tail(c), now)
  ELSE c

RECURSIVE evict_expired(_, _)
\* Drops entries from the front while they are expired; stops at the first
\* entry that is not.
evict_expired(c, now) ==
  IF c # <<>> /\ now > Head(c).expiry
  THEN evict_expired(Tail(c), now)
  ELSE c

RECURSIVE pop_oldest_over(_, _)
\* while len(self._cache) > self._max_size: popitem(last=False)
pop_oldest_over(c, max_size) ==
  IF Len(c) > max_size THEN pop_oldest_over(Tail(c), max_size) ELSE c

RECURSIVE pop_newest_over(_, _)
\* Mutant helper: popitem() without last=False drops the newest entry.
pop_newest_over(c, max_size) ==
  IF Len(c) > max_size
  THEN pop_newest_over(SubSeq(c, 1, Len(c) - 1), max_size)
  ELSE c

Admission(ok, c) == [ok |-> ok, cache |-> c]

\* Mutant: the capacity loop drops the newest entries.
check_and_add_pop_newest(c, nonce, ttl_seconds, max_size, now) ==
  LET live == evict_expired(c, now)
  IN  IF nonce \in CacheNonces(live)
      THEN Admission(FALSE, live)
      ELSE Admission(TRUE,
             pop_newest_over(Append(live, Entry(nonce, now + ttl_seconds)),
                             max_size))

\* Mutant: expiry taken non-strictly.
check_and_add_nonstrict(c, nonce, ttl_seconds, max_size, now) ==
  LET live == evict_expired_nonstrict(c, now)
  IN  IF nonce \in CacheNonces(live)
      THEN Admission(FALSE, live)
      ELSE Admission(TRUE,
             pop_oldest_over(Append(live, Entry(nonce, now + ttl_seconds)),
                             max_size))

\* Mutant: no capacity loop.
check_and_add_unbounded(c, nonce, ttl_seconds, max_size, now) ==
  LET live == evict_expired(c, now)
  IN  IF nonce \in CacheNonces(live)
      THEN Admission(FALSE, live)
      ELSE Admission(TRUE, Append(live, Entry(nonce, now + ttl_seconds)))

\* Mutant: the expiry scan drops the first entry only.
check_and_add_evict_one(c, nonce, ttl_seconds, max_size, now) ==
  LET live == IF c # <<>> /\ now > Head(c).expiry THEN Tail(c) ELSE c
  IN  IF nonce \in CacheNonces(live)
      THEN Admission(FALSE, live)
      ELSE Admission(TRUE,
             pop_oldest_over(Append(live, Entry(nonce, now + ttl_seconds)),
                             max_size))

check_and_add(c, nonce, ttl_seconds, max_size, now) ==
  LET live == evict_expired(c, now)
  IN  IF nonce \in CacheNonces(live)
      THEN Admission(FALSE, live)
      ELSE Admission(TRUE,
             pop_oldest_over(Append(live, Entry(nonce, now + ttl_seconds)),
                             max_size))

-----------------------------------------------------------------------------
(* The routes and the /invoke handler.                                     *)

\* What serving a request did: the HTTP status, the error code of the
\* body ("" when none), the route handler that ran ("none" when the
\* middleware answered), whether the nonce was admitted, whether a
\* provider request was sent, and verify_hmac_phase3's verdict.
Response(status, error, handler, admitted, providerCalled, verdict) ==
  [status |-> status, error |-> error, handler |-> handler,
   admitted |-> admitted, providerCalled |-> providerCalled,
   verdict |-> verdict]

NoVerdict == Verdict("none", <<>>)

NoResponse == Response(0, "", "none", FALSE, FALSE, NoVerdict)

\* What a handler returns, with the pool map it leaves.
Handled(status, error, handler, providerCalled, p) ==
  [status |-> status, error |-> error, handler |-> handler,
   providerCalled |-> providerCalled, pools |-> p]

\* The request bodies of the model: "valid" is a JSON object naming
\* provider "p1" with base_url and api_key, "noprov" a JSON object without
\* provider, "notjson" is not JSON.  Further, "notutf8" is bytes that are
\* not UTF-8 (json.loads raises UnicodeDecodeError, which is no
\* JSONDecodeError), "notobject" is JSON that is no object (its .get raises
\* AttributeError) and "nomodel" names a provider but has no model or
\* messages (build_openai_request raises KeyError).  "valid_u2" is "valid"
\* with another base_url and "valid_p2" is "valid" with another provider
\* name.
ProviderOf(body) == IF body = "valid_p2" THEN "p2" ELSE "p1"

BaseUrlOf(body) == IF body = "valid_u2" THEN "u2" ELSE "u1"

\* An httpx.AsyncClient under its provider name.  The clients are numbered
\* as they are constructed: id tells one object from another.
Client(name, base_url, id) == [name |-> name, base_url |-> base_url, id |-> id]

\* The number of the next client constructed.
NextId(p) ==
  IF p = {} THEN 1
  ELSE 1 + (CHOOSE n \in {c.id : c \in p} : \A c \in p : c.id <= n)

\* Mutant: a client is constructed at every call and replaces the one kept.
get_or_create_always(p, provider_name, base_url) ==
  {c \in p : c.name # provider_name}
  \cup {Client(provider_name, base_url, NextId(p))}

\* ProviderPoolManager.get_or_create: the client is created on first use.
get_or_create(p, provider_name, base_url) ==
  IF \E c \in p : c.name = provider_name
  THEN p
  ELSE p \cup {Client(provider_name, base_url, NextId(p))}

\* POST /invoke.  `outcome` is how the provider exchange ends: "200" or
\* "error" (a ChevalError out of invoke_with_retry_async, or a body that
\* is not JSON).  At least one provider request is sent either way.
\* Mutant: a request is refused once the ledger holds an entry.
invoke_over_budget(body, outcome, p) ==
  IF ledger > 0 THEN Handled(429, "BUDGET_EXCEEDED", "invoke", FALSE, p)
  ELSE IF body = "notjson"
  THEN Handled(400, "INVALID_JSON", "invoke", FALSE, p)
  ELSE IF body = "notutf8" \/ body = "notobject"
  THEN Handled(500, "UNHANDLED_EXCEPTION", "invoke", FALSE, p)
  ELSE IF body = "noprov"
  THEN Handled(400, "MISSING_PROVIDER", "invoke", FALSE, p)
  ELSE IF body = "nomodel"
  THEN Handled(500, "UNHANDLED_EXCEPTION", "invoke", FALSE, p)
  ELSE LET p2 == get_or_create(p, ProviderOf(body), BaseUrlOf(body))
       IN  IF outcome = "200"
           THEN Handled(200, "", "invoke", TRUE, p2)
           ELSE Handled(502, "ChevalError", "invoke", TRUE, p2)

invoke(body, outcome, p) ==
  IF body = "notjson" THEN Handled(400, "INVALID_JSON", "invoke", FALSE, p)
  ELSE IF body = "notutf8" \/ body = "notobject"
       THEN Handled(500, "UNHANDLED_EXCEPTION", "invoke", FALSE, p)
  ELSE IF body = "noprov"
       THEN Handled(400, "MISSING_PROVIDER", "invoke", FALSE, p)
  ELSE IF body = "nomodel"
       THEN Handled(500, "UNHANDLED_EXCEPTION", "invoke", FALSE, p)
  ELSE LET p2 == get_or_create(p, ProviderOf(body), BaseUrlOf(body))
       IN  IF outcome = "200"
           THEN Handled(200, "", "invoke", TRUE, p2)
           ELSE Handled(502, "ChevalError", "invoke", TRUE, p2)

\* call_next with /invoke/stream handled the way /invoke is.
call_next_stream_as_invoke(method, path, body, outcome, p) ==
  IF path = "/healthz"
  THEN IF method = "GET" THEN Handled(200, "", "healthz", FALSE, p)
       ELSE Handled(405, "", "router", FALSE, p)
  ELSE IF path = "/invoke" \/ path = "/invoke/stream"
  THEN IF method = "POST" THEN invoke(body, outcome, p)
       ELSE Handled(405, "", "router", FALSE, p)
  ELSE Handled(404, "", "router", FALSE, p)

\* call_next: the router picks the handler by path and method.
call_next(method, path, body, outcome, p) ==
  IF path = "/healthz"
  THEN IF method = "GET" THEN Handled(200, "", "healthz", FALSE, p)
       ELSE Handled(405, "", "router", FALSE, p)
  ELSE IF path = "/invoke"
  THEN IF method = "POST" THEN invoke(body, outcome, p)
       ELSE Handled(405, "", "router", FALSE, p)
  ELSE IF path = "/invoke/stream"
  THEN IF method = "POST"
       THEN Handled(501, "NOT_IMPLEMENTED", "invoke_stream", FALSE, p)
       ELSE Handled(405, "", "router", FALSE, p)
  ELSE Handled(404, "", "router", FALSE, p)

-----------------------------------------------------------------------------
(* HMACVerificationMiddleware.dispatch.                                    *)

\* The state dispatch leaves and the response it gives.
Served(response, c, p) == [resp |-> response, cache |-> c, pools |-> p]

Passed(h, admitted, verdict, c) ==
  Served(Response(h.status, h.error, h.handler, admitted, h.providerCalled,
                  verdict), c, h.pools)

Refused(status, error, verdict, c, p) ==
  Served(Response(status, error, "none", FALSE, FALSE, verdict), c, p)

\* Mutant: the nonce is recorded before the signature is verified.
dispatch_nonce_first(r, outcome, sec, sec_prev, c, p, nowMono, nowWall) ==
  IF r.method = "GET"
  THEN Passed(call_next(r.method, r.path, r.body, outcome, p), FALSE,
              NoVerdict, c)
  ELSE IF sec = ""
  THEN Refused(500, "HMAC_NOT_CONFIGURED", NoVerdict, c, p)
  ELSE IF HeaderEmpty(r.signature) \/ r.nonce = ""
          \/ r.issued_at.kind = "empty" \/ r.trace_id = ""
  THEN Refused(403, "HMAC_MISSING_HEADERS", NoVerdict, c, p)
  ELSE LET a == check_and_add(c, r.nonce, SkewSeconds * 2,
                              NonceCacheMaxSize, nowMono)
           v == verify_hmac_phase3(r.method, r.path, r.body, r.signature,
                                   r.nonce, r.trace_id, r.issued_at, sec,
                                   sec_prev, SkewSeconds, nowWall)
       IN  IF v.result = "raise"
           THEN Refused(500, "UNHANDLED_EXCEPTION", v, a.cache, p)
           ELSE IF v.result = "false"
           THEN Refused(403, "HMAC_INVALID", v, a.cache, p)
           ELSE IF ~a.ok
                THEN Refused(403, "REPLAY_DETECTED", v, a.cache, p)
                ELSE Passed(call_next(r.method, r.path, r.body, outcome, p),
                            TRUE, v, a.cache)

dispatch(r, outcome, sec, sec_prev, c, p, nowMono, nowWall) ==
  IF r.method = "GET"
  THEN Passed(call_next(r.method, r.path, r.body, outcome, p), FALSE,
              NoVerdict, c)
  ELSE IF sec = ""
  THEN Refused(500, "HMAC_NOT_CONFIGURED", NoVerdict, c, p)
  ELSE IF HeaderEmpty(r.signature) \/ r.nonce = ""
          \/ r.issued_at.kind = "empty" \/ r.trace_id = ""
  THEN Refused(403, "HMAC_MISSING_HEADERS", NoVerdict, c, p)
  ELSE LET v == verify_hmac_phase3(r.method, r.path, r.body, r.signature,
                                   r.nonce, r.trace_id, r.issued_at, sec,
                                   sec_prev, SkewSeconds, nowWall)
       IN  IF v.result = "raise"
           \* The TypeError leaves dispatch; the server answers 500.
           THEN Refused(500, "UNHANDLED_EXCEPTION", v, c, p)
           ELSE IF v.result = "false"
           THEN Refused(403, "HMAC_INVALID", v, c, p)
           ELSE LET a == check_and_add(c, r.nonce, SkewSeconds * 2,
                                       NonceCacheMaxSize, nowMono)
                IN  IF ~a.ok
                    THEN Refused(403, "REPLAY_DETECTED", v, a.cache, p)
                    ELSE Passed(call_next(r.method, r.path, r.body, outcome,
                                          p), TRUE, v, a.cache)

-----------------------------------------------------------------------------
(* The circuit breaker of one provider (circuit_breaker.py).  A timestamp  *)
(* field is <<>> for None and <<t>> for the number t.                      *)

CLOSED == "CLOSED"

OPEN == "OPEN"

HALF_OPEN == "HALF_OPEN"

\* failure_threshold, scaled down from its default of 5.
FailureThreshold == 2

\* reset_timeout_seconds, scaled down from its default of 60.
ResetTimeout == 2

\* count_window_seconds, scaled down from its default of 300.
CountWindow == 3

\* half_open_max_probes, at its default.
HalfOpenMaxProbes == 1

\* The last instant at which the circuit-breaker model lets time advance:
\* late enough to open, time out, reopen and time out again, and to let the
\* count window pass.
CbMaxTime == 1 + ResetTimeout * 2 + CountWindow

\* Python's truth value of an optional timestamp: None and 0 are false.
Truthy(ts) == ts # <<>> /\ ts[1] # 0

_default_state ==
  [state |-> CLOSED, failure_count |-> 0, last_failure_ts |-> <<>>,
   opened_at |-> <<>>, half_open_probes |-> 0]

\* The state the file holds, the default state when there is no file.
_read_state(file) == IF file = <<>> THEN _default_state ELSE file[1]

\* The file after the truncate-and-rewrite under the exclusive lock.
_write_state(state) == <<state>>

\* What a call returns and the file it leaves.
Returned(ret, file) == [ret |-> ret, file |-> file]

\* Mutant: an expired reset timeout closes the breaker without a probe.
check_state_closes(file, now) ==
  LET state == _read_state(file)
  IN  IF state.state = OPEN
      THEN IF Truthy(state.opened_at)
              /\ now - state.opened_at[1] >= ResetTimeout
           THEN Returned(CLOSED,
                  _write_state([state EXCEPT !.state = CLOSED,
                                             !.half_open_probes = 0]))
           ELSE Returned(OPEN, file)
      ELSE IF state.state = HALF_OPEN
      THEN IF state.half_open_probes >= HalfOpenMaxProbes
           THEN Returned(OPEN, file)
           ELSE Returned(HALF_OPEN, file)
      ELSE Returned(CLOSED, file)

check_state(file, now) ==
  LET state == _read_state(file)
  IN  IF state.state = OPEN
      THEN IF Truthy(state.opened_at)
              /\ now - state.opened_at[1] >= ResetTimeout
           THEN Returned(HALF_OPEN,
                  _write_state([state EXCEPT !.state = HALF_OPEN,
                                             !.half_open_probes = 0]))
           ELSE Returned(OPEN, file)
      ELSE IF state.state = HALF_OPEN
      THEN IF state.half_open_probes >= HalfOpenMaxProbes
           THEN Returned(OPEN, file)
           ELSE Returned(HALF_OPEN, file)
      ELSE Returned(CLOSED, file)

\* Mutant: a failed probe reopens the breaker without restarting its timer.
record_failure_old_timer(file, now) ==
  LET state == _read_state(file)
  IN  IF state.state = HALF_OPEN
      THEN Returned(OPEN,
             _write_state([state EXCEPT !.state = OPEN,
                                        !.half_open_probes = 0]))
      ELSE IF state.state = CLOSED
      THEN LET kept == IF Truthy(state.last_failure_ts)
                          /\ now - state.last_failure_ts[1] > CountWindow
                       THEN 0 ELSE state.failure_count
               counted == [state EXCEPT !.failure_count = kept + 1,
                                        !.last_failure_ts = <<now>>]
           IN  IF counted.failure_count >= FailureThreshold
               THEN Returned(OPEN,
                      _write_state([counted EXCEPT !.state = OPEN,
                                                   !.opened_at = <<now>>]))
               ELSE Returned(CLOSED, _write_state(counted))
      ELSE Returned(OPEN,
             _write_state([state EXCEPT !.last_failure_ts = <<now>>]))

\* Mutant: the breaker opens only above the threshold.
record_failure_above(file, now) ==
  LET state == _read_state(file)
  IN  IF state.state = HALF_OPEN
      THEN Returned(OPEN,
             _write_state([state EXCEPT !.state = OPEN, !.opened_at = <<now>>,
                                        !.half_open_probes = 0]))
      ELSE IF state.state = CLOSED
      THEN LET kept == IF Truthy(state.last_failure_ts)
                          /\ now - state.last_failure_ts[1] > CountWindow
                       THEN 0 ELSE state.failure_count
               counted == [state EXCEPT !.failure_count = kept + 1,
                                        !.last_failure_ts = <<now>>]
           IN  IF counted.failure_count > FailureThreshold
               THEN Returned(OPEN,
                      _write_state([counted EXCEPT !.state = OPEN,
                                                   !.opened_at = <<now>>]))
               ELSE Returned(CLOSED, _write_state(counted))
      ELSE Returned(OPEN,
             _write_state([state EXCEPT !.last_failure_ts = <<now>>]))

record_failure(file, now) ==
  LET state == _read_state(file)
  IN  IF state.state = HALF_OPEN
      THEN Returned(OPEN,
             _write_state([state EXCEPT !.state = OPEN, !.opened_at = <<now>>,
                                        !.half_open_probes = 0]))
      ELSE IF state.state = CLOSED
      THEN LET kept == IF Truthy(state.last_failure_ts)
                          /\ now - state.last_failure_ts[1] > CountWindow
                       THEN 0 ELSE state.failure_count
               counted == [state EXCEPT !.failure_count = kept + 1,
                                        !.last_failure_ts = <<now>>]
           IN  IF counted.failure_count >= FailureThreshold
               THEN Returned(OPEN,
                      _write_state([counted EXCEPT !.state = OPEN,
                                                   !.opened_at = <<now>>]))
               ELSE Returned(CLOSED, _write_state(counted))
      ELSE Returned(OPEN,
             _write_state([state EXCEPT !.last_failure_ts = <<now>>]))

\* Mutant: a success in CLOSED leaves the failure count.
record_success_no_reset(file) ==
  LET state == _read_state(file)
  IN  IF state.state = HALF_OPEN
      THEN Returned(CLOSED, _write_state(_default_state))
      ELSE Returned(state.state, file)

\* Mutant: a probe success closes the breaker but keeps its counters.
record_success_keep(file) ==
  LET state == _read_state(file)
  IN  IF state.state = HALF_OPEN
      THEN Returned(CLOSED, _write_state([state EXCEPT !.state = CLOSED]))
      ELSE IF state.state = CLOSED /\ state.failure_count > 0
      THEN Returned(CLOSED, _write_state([state EXCEPT !.failure_count = 0]))
      ELSE Returned(state.state, file)

record_success(file) ==
  LET state == _read_state(file)
  IN  IF state.state = HALF_OPEN
      THEN Returned(CLOSED, _write_state(_default_state))
      ELSE IF state.state = CLOSED /\ state.failure_count > 0
      THEN Returned(CLOSED, _write_state([state EXCEPT !.failure_count = 0]))
      ELSE Returned(state.state, file)

\* Mutant: the probe counter is incremented whatever the state.
increment_probe_always(file) ==
  LET state == _read_state(file)
  IN  Returned("", _write_state(
        [state EXCEPT !.half_open_probes = state.half_open_probes + 1]))

\* increment_probe returns nothing.
increment_probe(file) ==
  LET state == _read_state(file)
  IN  IF state.state = HALF_OPEN
      THEN Returned("", _write_state(
             [state EXCEPT !.half_open_probes = state.half_open_probes + 1]))
      ELSE Returned("", file)

\* The record kept of a call: its name, what it returned, when it ran and
\* the state it read.
Called(op, ret, at, pre) == [op |-> op, ret |-> ret, at |-> at, pre |-> pre]

\* No check_state has returned HALF_OPEN.  seen counts those that did, up
\* to one past half_open_max_probes; owed says that the latest of them has
\* not been followed by increment_probe yet; kept says that each of them
\* was, before the next check_state.
NoProbe == [seen |-> 0, owed |-> FALSE, kept |-> TRUE]

CheckState ==
  /\ LET r == check_state(cbFile, wall)
     IN  /\ cbFile' = r.file
         /\ cbLast' = Called("check_state", r.ret, wall,
                             _read_state(cbFile).state)
         /\ cbProbe' =
              [seen |-> IF r.ret = HALF_OPEN
                        THEN Min(cbProbe.seen + 1, HalfOpenMaxProbes + 1)
                        ELSE cbProbe.seen,
               owed |-> r.ret = HALF_OPEN,
               kept |-> cbProbe.kept /\ ~cbProbe.owed]
  /\ UNCHANGED <<authVars, wall, cbStreak, cbSince, otherVars>>

RecordFailure ==
  /\ LET r == record_failure(cbFile, wall)
         pre == _read_state(cbFile)
         base == IF pre.state = CLOSED /\ pre.failure_count = 0
                 THEN [n |-> 0, start |-> wall, inWindow |-> TRUE]
                 ELSE cbStreak
     IN  /\ cbFile' = r.file
         /\ cbLast' = Called("record_failure", r.ret, wall, pre.state)
         /\ cbStreak' =
              [n |-> Min(base.n + 1, FailureThreshold + 1),
               start |-> base.start,
               inWindow |-> base.inWindow /\ wall - base.start <= CountWindow]
  /\ cbSince' = Min(cbSince + 1, FailureThreshold)
  /\ cbProbe' = NoProbe
  /\ UNCHANGED <<authVars, wall, otherVars>>

RecordSuccess ==
  /\ LET r == record_success(cbFile)
     IN  /\ cbFile' = r.file
         /\ cbLast' = Called("record_success", r.ret, wall,
                             _read_state(cbFile).state)
  /\ cbStreak' = [cbStreak EXCEPT !.inWindow = FALSE]
  /\ cbSince' = 0
  /\ cbProbe' = NoProbe
  /\ UNCHANGED <<authVars, wall, otherVars>>

\* The probe counter is followed up to one past half_open_max_probes.
IncrementProbe ==
  /\ _read_state(cbFile).half_open_probes <= HalfOpenMaxProbes
  /\ LET r == increment_probe(cbFile)
     IN  /\ cbFile' = r.file
         /\ cbLast' = Called("increment_probe", r.ret, wall,
                             _read_state(cbFile).state)
  /\ cbProbe' = [cbProbe EXCEPT !.owed = FALSE]
  /\ UNCHANGED <<authVars, wall, cbStreak, cbSince, otherVars>>

\* A second passes on the wall clock.
CbTick ==
  /\ wall < CbMaxTime
  /\ wall' = wall + 1
  /\ UNCHANGED <<authVars, cbVars, otherVars>>

-----------------------------------------------------------------------------
(* The retry engine (invoke_with_retry_async).  An outcome is what one     *)
(* client.post gives: a response with a status, or a raised exception.     *)
(* An optional value is <<>> for None and <<v>> for the value v.           *)

\* max_retries is followed from -1, where the loop body never runs.
MaxRetries == 2

NON_RETRYABLE_STATUS == {400, 401, 403, 404}

\* The default of retryable_status_codes.
DefaultRetryableCodes == {429, 500, 502, 503, 504}

Statuses == {200, 201, 400, 404, 429, 503}

\* httpx exceptions by class: ConnectTimeout and ReadTimeout are
\* TimeoutExceptions; ConnectError and ReadError are NetworkErrors;
\* RemoteProtocolError is a ProtocolError; all of these are TransportErrors.
\* TypeError stands for an exception that is no httpx exception.
TimeoutExceptions == {"ConnectTimeout", "ReadTimeout"}

ConnectErrors == {"ConnectError"}

TransportErrors ==
  TimeoutExceptions \cup ConnectErrors \cup {"ReadError", "RemoteProtocolError"}

Exceptions == TransportErrors \cup {"TypeError"}

StatusOutcome(status) == [kind |-> "status", status |-> status, exc |-> ""]

RaisedOutcome(exc) == [kind |-> "raised", status |-> 0, exc |-> exc]

Outcomes ==
  {StatusOutcome(st) : st \in Statuses} \cup {RaisedOutcome(e) : e \in Exceptions}

RetryConfig(max_retries, retryable_status_codes) ==
  [max_retries |-> max_retries, retryable_codes |-> retryable_status_codes]

RetryConfigs ==
  {RetryConfig(m, c) : m \in -1 .. MaxRetries,
                       c \in {DefaultRetryableCodes, {200, 400, 503}, {}}}

ChevalError(code, status_code, retryable) ==
  [code |-> code, status_code |-> status_code, retryable |-> retryable]

\* What one pass of the loop body does: return the response, raise, or
\* continue with the next attempt; with the last_error it leaves.
Pass(kind, error, last) == [kind |-> kind, error |-> error, last |-> last]

Returns(last) == Pass("returned", <<>>, last)

Raises(e, last) == Pass("raised", <<e>>, last)

\* A retryable failure: continue while attempts remain, else raise it.
Retries(e, att, max_retries) ==
  IF att < max_retries THEN Pass("running", <<>>, <<e>>) ELSE Raises(e, <<e>>)

\* Mutant: the configured retryable set is looked up before the fixed
\* non-retryable one.
retry_pass_config_first(att, outcome, max_retries, retryable_codes, last) ==
  IF outcome.kind = "status"
  THEN IF outcome.status = 200
       THEN Returns(last)
       ELSE IF outcome.status \in retryable_codes
       THEN Retries(ChevalError("provider_error", <<outcome.status>>, TRUE),
                    att, max_retries)
       ELSE Raises(ChevalError("provider_error", <<outcome.status>>, FALSE),
                   last)
  ELSE IF outcome.exc \in TimeoutExceptions \cup ConnectErrors
  THEN Retries(ChevalError("network_error", <<>>, TRUE), att, max_retries)
  ELSE Raises(ChevalError("network_error", <<>>, FALSE), last)

\* Mutant: every failure is retried while attempts remain.
retry_pass_all(att, outcome, max_retries, retryable_codes, last) ==
  IF outcome.kind = "status"
  THEN IF outcome.status = 200
       THEN Returns(last)
       ELSE Retries(ChevalError("provider_error", <<outcome.status>>, TRUE),
                    att, max_retries)
  ELSE Retries(ChevalError("network_error", <<>>, TRUE), att, max_retries)

\* Mutant: the first retryable error is kept as last_error.
retry_pass_first_error(att, outcome, max_retries, retryable_codes, last) ==
  LET keep(e) == IF last = <<>> THEN e ELSE last[1]
  IN  IF outcome.kind = "status"
      THEN IF outcome.status = 200
           THEN Returns(last)
           ELSE IF outcome.status \in NON_RETRYABLE_STATUS
           THEN Raises(ChevalError("provider_error", <<outcome.status>>, FALSE),
                       last)
           ELSE IF outcome.status \in retryable_codes
           THEN Retries(keep(ChevalError("provider_error", <<outcome.status>>,
                                         TRUE)), att, max_retries)
           ELSE Raises(ChevalError("provider_error", <<outcome.status>>, FALSE),
                       last)
      ELSE IF outcome.exc \in TimeoutExceptions \cup ConnectErrors
      THEN Retries(keep(ChevalError("network_error", <<>>, TRUE)),
                   att, max_retries)
      ELSE Raises(ChevalError("network_error", <<>>, FALSE), last)

\* The body of the for loop, for the outcome of its client.post.
retry_pass(att, outcome, max_retries, retryable_codes, last) ==
  IF outcome.kind = "status"
  THEN IF outcome.status = 200
       THEN Returns(last)
       ELSE IF outcome.status \in NON_RETRYABLE_STATUS
       THEN Raises(ChevalError("provider_error", <<outcome.status>>, FALSE),
                   last)
       ELSE IF outcome.status \in retryable_codes
       THEN Retries(ChevalError("provider_error", <<outcome.status>>, TRUE),
                    att, max_retries)
       ELSE Raises(ChevalError("provider_error", <<outcome.status>>, FALSE),
                   last)
  ELSE IF outcome.exc \in TimeoutExceptions
  THEN Retries(ChevalError("network_error", <<>>, TRUE), att, max_retries)
  ELSE IF outcome.exc \in ConnectErrors
  THEN Retries(ChevalError("network_error", <<>>, TRUE), att, max_retries)
  ELSE Raises(ChevalError("network_error", <<>>, FALSE), last)

\* What the call has done so far.
Running == [kind |-> "running", error |-> <<>>]

\* No call of the retry engine is under way.
RetryIdle ==
  /\ retry_config = RetryConfig(0, {})
  /\ attempt = 0
  /\ last_error = <<>>
  /\ rtResult = [kind |-> "none", error |-> <<>>]
  /\ rtOutcomes = <<>>

\* One pass of `for attempt in range(max_retries + 1)`: the request is
\* sent and its outcome handled.
RetryAttempt ==
  /\ rtResult.kind = "running"
  /\ attempt < retry_config.max_retries + 1
  /\ \E outcome \in Outcomes :
       LET r == retry_pass(attempt, outcome, retry_config.max_retries,
                           retry_config.retryable_codes, last_error)
       IN  /\ rtOutcomes' = Append(rtOutcomes, outcome)
           /\ rtResult' = [kind |-> r.kind, error |-> r.error]
           /\ last_error' = r.last
           /\ attempt' = IF r.kind = "running" THEN attempt + 1 ELSE attempt
  /\ UNCHANGED <<retry_config, authVars, wall, cbVars, sseVars, callVars>>

\* The loop ended without a return or a raise: the code after it.
RetryExhausted ==
  /\ rtResult.kind = "running"
  /\ ~(attempt < retry_config.max_retries + 1)
  /\ rtResult' =
       [kind |-> "raised",
        error |-> IF last_error # <<>> THEN last_error
                  ELSE <<ChevalError("network_error", <<>>, FALSE)>>]
  /\ UNCHANGED <<retry_config, attempt, last_error, rtOutcomes,
                 authVars, wall, cbVars, sseVars, callVars>>

-----------------------------------------------------------------------------
(* The backoff of the retry engines.  Delays are in milliseconds;          *)
(* random.random() * 2 - 1 is a number u of [-1, 1), taken in steps of     *)
(* 1 / JitterSteps as n / JitterSteps.  A sleep is kept multiplied by      *)
(* SleepScale, which makes every value an integer.                         *)

\* The steps u is taken in on each side of 0.
JitterSteps == 2

SleepScale == 100 * JitterSteps

RECURSIVE Pow2(_)
Pow2(k) == IF k <= 0 THEN 1 ELSE 2 * Pow2(k - 1)

\* delay = min(base_delay * (2 ** (attempt - 1)), max_delay)
backoff_delay(att, base_delay, max_delay) ==
  Min(base_delay * Pow2(att - 1), max_delay)

\* What the head of the loop body does before the request of attempt att is
\* sent: nothing on attempt 0, else a sleep of
\* max(0, delay + delay * jitter_pct * u), here times SleepScale.
Slept(att, delay, actual_delay) ==
  [attempt |-> att, delay |-> delay, actual_delay |-> actual_delay]

\* Mutant: the exponent is the attempt, and the delay is not capped.
backoff_uncapped(att, base_delay, max_delay, jitter_percent, n) ==
  IF att > 0
  THEN LET delay == base_delay * Pow2(att)
           jitter == delay * jitter_percent * n
           sum == delay * SleepScale + jitter
       IN  <<Slept(att, delay, IF sum < 0 THEN 0 ELSE sum)>>
  ELSE <<>>

backoff(att, base_delay, max_delay, jitter_percent, n) ==
  IF att > 0
  THEN LET delay == backoff_delay(att, base_delay, max_delay)
           jitter == delay * jitter_percent * n
           sum == delay * SleepScale + jitter
       IN  <<Slept(att, delay, IF sum < 0 THEN 0 ELSE sum)>>
  ELSE <<>>

\* The retry configurations of the backoff model: base_delay_ms,
\* max_delay_ms and jitter_percent, with max_retries = MaxRetries + 1.
BackoffConfigs ==
  {[base_delay |-> b, max_delay |-> m, jitter_percent |-> j] :
     b \in {0, 1, 2, 3}, m \in {0, 1, 4, 5}, j \in {0, 25, 150}}

\* The head of one pass of `for attempt in range(max_retries + 1)`: the
\* sleep, if any, is appended to the sleeps of the call.
Backoff ==
  /\ call # <<>>
  /\ call[1].fn = "backoff"
  /\ call[1].attempt <= MaxRetries + 1
  /\ \E n \in -JitterSteps .. JitterSteps - 1 :
       LET c == call[1].config
           s == backoff(call[1].attempt, c.base_delay, c.max_delay,
                        c.jitter_percent, n)
       IN  call' = <<[call[1] EXCEPT !.attempt = @ + 1,
                                     !.sleeps = @ \o s]>>
  /\ UNCHANGED <<callRet, authVars, wall, cbVars, retryVars, sseVars>>

-----------------------------------------------------------------------------
(* The blocking retry engine (invoke_with_retry, cheval.py) beside the     *)
(* async one.  Both are run on one sequence of provider outcomes: the k-th *)
(* client.post of either engine gets the k-th outcome.                     *)

\* Mutant: the blocking engine does not retry a refused connection.
retry_pass_blocking_no_connect(att, outcome, max_retries, retryable_codes, last) ==
  IF outcome.kind = "status"
  THEN IF outcome.status = 200
       THEN Returns(last)
       ELSE IF outcome.status \in NON_RETRYABLE_STATUS
       THEN Raises(ChevalError("provider_error", <<outcome.status>>, FALSE),
                   last)
       ELSE IF outcome.status \in retryable_codes
       THEN Retries(ChevalError("provider_error", <<outcome.status>>, TRUE),
                    att, max_retries)
       ELSE Raises(ChevalError("provider_error", <<outcome.status>>, FALSE),
                   last)
  ELSE IF outcome.exc \in TimeoutExceptions
  THEN Retries(ChevalError("network_error", <<>>, TRUE), att, max_retries)
  ELSE Raises(ChevalError("network_error", <<>>, FALSE), last)

\* The body of the for loop of invoke_with_retry, for the outcome of its
\* client.post.
retry_pass_blocking(att, outcome, max_retries, retryable_codes, last) ==
  IF outcome.kind = "status"
  THEN IF outcome.status = 200
       THEN Returns(last)
       ELSE IF outcome.status \in NON_RETRYABLE_STATUS
       THEN Raises(ChevalError("provider_error", <<outcome.status>>, FALSE),
                   last)
       ELSE IF outcome.status \in retryable_codes
       THEN Retries(ChevalError("provider_error", <<outcome.status>>, TRUE),
                    att, max_retries)
       ELSE Raises(ChevalError("provider_error", <<outcome.status>>, FALSE),
                   last)
  ELSE IF outcome.exc \in TimeoutExceptions
  THEN Retries(ChevalError("network_error", <<>>, TRUE), att, max_retries)
  ELSE IF outcome.exc \in ConnectErrors
  THEN Retries(ChevalError("network_error", <<>>, TRUE), att, max_retries)
  ELSE Raises(ChevalError("network_error", <<>>, FALSE), last)

\* `delay` of the blocking engine before attempt att (cheval.py).
backoff_delay_blocking(att, base_delay, max_delay) ==
  Min(base_delay * Pow2(att - 1), max_delay)

\* The locals of a running engine: the loop variable, last_error, what the
\* call has done, the response it returned, the delays it computed and the
\* requests it sent.
Engine(att, last, result, response, delays, posts) ==
  [attempt |-> att, last_error |-> last, result |-> result,
   response |-> response, delays |-> delays, posts |-> posts]

EngineStart == Engine(0, <<>>, Running, <<>>, <<>>, 0)

\* The engine after a pass r of its loop that computed delay and got outcome.
EngineAfter(e, r, delay, outcome) ==
  Engine(IF r.kind = "running" THEN e.attempt + 1 ELSE e.attempt,
         r.last,
         [kind |-> r.kind, error |-> r.error],
         IF r.kind = "returned" THEN <<outcome>> ELSE <<>>,
         IF e.attempt > 0 THEN Append(e.delays, delay) ELSE e.delays,
         e.posts + 1)

\* The engine after the code that follows the loop.
EngineExhausted(e) ==
  [e EXCEPT !.result =
     [kind |-> "raised",
      error |-> IF e.last_error # <<>> THEN e.last_error
                ELSE <<ChevalError("network_error", <<>>, FALSE)>>]]

\* The configurations the two engines are compared under.
EquivConfigs ==
  {[max_retries |-> m, retryable_codes |-> c, base_delay_ms |-> b,
    max_delay_ms |-> 4] :
     m \in -1 .. MaxRetries,
     c \in {DefaultRetryableCodes, {200, 400, 503}},
     b \in {1, 3}}

\* The outcome of the next client.post of an engine that has sent `posts`
\* requests: the one the other engine got at that place, or a new one.
NextOutcomes(posts) ==
  IF posts < Len(call[1].outcomes) THEN {call[1].outcomes[posts + 1]}
  ELSE Outcomes

Fed(posts, outcome) ==
  IF posts < Len(call[1].outcomes) THEN call[1].outcomes
  ELSE Append(call[1].outcomes, outcome)

\* One pass of the loop of invoke_with_retry.
BlockingAttempt ==
  /\ call # <<>>
  /\ call[1].fn = "invoke_with_retry"
  /\ LET e == call[1].blocking
         cfg == call[1].retry_config
     IN  /\ e.result.kind = "running"
         /\ e.attempt < cfg.max_retries + 1
         /\ \E outcome \in NextOutcomes(e.posts) :
              call' = <<[call[1] EXCEPT
                 !.outcomes = Fed(e.posts, outcome),
                 !.blocking =
                    EngineAfter(e,
                      retry_pass_blocking(e.attempt, outcome, cfg.max_retries,
                                          cfg.retryable_codes, e.last_error),
                      backoff_delay_blocking(e.attempt, cfg.base_delay_ms,
                                             cfg.max_delay_ms),
                      outcome)]>>
  /\ UNCHANGED <<callRet, authVars, wall, cbVars, retryVars, sseVars>>

\* The code after the loop of invoke_with_retry.
BlockingExhausted ==
  /\ call # <<>>
  /\ call[1].fn = "invoke_with_retry"
  /\ call[1].blocking.result.kind = "running"
  /\ ~(call[1].blocking.attempt < call[1].retry_config.max_retries + 1)
  /\ call' = <<[call[1] EXCEPT !.blocking = EngineExhausted(call[1].blocking)]>>
  /\ UNCHANGED <<callRet, authVars, wall, cbVars, retryVars, sseVars>>

\* One pass of the loop of invoke_with_retry_async.
AsyncAttempt ==
  /\ call # <<>>
  /\ call[1].fn = "invoke_with_retry"
  /\ LET e == call[1].async
         cfg == call[1].retry_config
     IN  /\ e.result.kind = "running"
         /\ e.attempt < cfg.max_retries + 1
         /\ \E outcome \in NextOutcomes(e.posts) :
              call' = <<[call[1] EXCEPT
                 !.outcomes = Fed(e.posts, outcome),
                 !.async =
                    EngineAfter(e,
                      retry_pass(e.attempt, outcome, cfg.max_retries,
                                 cfg.retryable_codes, e.last_error),
                      backoff_delay(e.attempt, cfg.base_delay_ms,
                                    cfg.max_delay_ms),
                      outcome)]>>
  /\ UNCHANGED <<callRet, authVars, wall, cbVars, retryVars, sseVars>>

\* The code after the loop of invoke_with_retry_async.
AsyncExhausted ==
  /\ call # <<>>
  /\ call[1].fn = "invoke_with_retry"
  /\ call[1].async.result.kind = "running"
  /\ ~(call[1].async.attempt < call[1].retry_config.max_retries + 1)
  /\ call' = <<[call[1] EXCEPT !.async = EngineExhausted(call[1].async)]>>
  /\ UNCHANGED <<callRet, authVars, wall, cbVars, retryVars, sseVars>>

-----------------------------------------------------------------------------
(* The SSE decoder (sse_decoder.py).  A byte string is a sequence of       *)
(* bytes and a text a sequence of characters, each written as a string;    *)
(* "CR" and "LF" are the carriage return and the line feed, "SP" the       *)
(* space, "C3" "A9" the two bytes of the UTF-8 encoding of U+00E9.         *)

CR == "CR"

LF == "LF"

\* chunk.decode("utf-8", errors="replace"): a lead byte without its
\* continuation byte, and a continuation byte without a lead, each decode
\* to U+FFFD.
RECURSIVE decode_utf8(_)
decode_utf8(bytes) ==
  IF bytes = <<>> THEN <<>>
  ELSE IF bytes[1] = "C3"
  THEN IF Len(bytes) >= 2 /\ bytes[2] = "A9"
       THEN <<"U+00E9">> \o decode_utf8(SubSeq(bytes, 3, Len(bytes)))
       ELSE <<"U+FFFD">> \o decode_utf8(Tail(bytes))
  ELSE IF bytes[1] = "A9"
  THEN <<"U+FFFD">> \o decode_utf8(Tail(bytes))
  ELSE <<bytes[1]>> \o decode_utf8(Tail(bytes))

\* str.replace("\r\n", "\n")
RECURSIVE replace_crlf(_)
replace_crlf(text) ==
  IF text = <<>> THEN <<>>
  ELSE IF text[1] = CR /\ Len(text) >= 2 /\ text[2] = LF
  THEN <<LF>> \o replace_crlf(SubSeq(text, 3, Len(text)))
  ELSE <<text[1]>> \o replace_crlf(Tail(text))

\* str.replace("\r", "\n")
replace_cr(text) == [i \in 1 .. Len(text) |-> IF text[i] = CR THEN LF ELSE text[i]]

\* The index of the first occurrence of character c in text, 0 if none.
Find(text, c) ==
  IF \E i \in 1 .. Len(text) : text[i] = c
  THEN CHOOSE i \in 1 .. Len(text) :
         text[i] = c /\ \A j \in 1 .. i - 1 : text[j] # c
  ELSE 0

\* line.partition(":") with one leading space of the value stripped; a
\* line without a colon is a field name with an empty value.
ParseField(line) ==
  LET k == Find(line, ":")
      raw == SubSeq(line, k + 1, Len(line))
  IN  IF k = 0 THEN [name |-> line, value |-> <<>>]
      ELSE [name |-> SubSeq(line, 1, k - 1),
            value |-> IF raw # <<>> /\ raw[1] = "SP" THEN Tail(raw) ELSE raw]

Digits == <<"0", "1", "2", "3", "4", "5", "6", "7", "8", "9">>

\* int(value) for a value made of decimal digits; <<>> where it raises
\* ValueError.  Values with signs, blanks or underscores are not fed.
RECURSIVE IntOf(_)
IntOf(value) ==
  IF value = <<>> \/ \E i \in 1 .. Len(value) : Find(Digits, value[i]) = 0
  THEN <<>>
  ELSE IF Len(value) = 1 THEN <<Find(Digits, value[1]) - 1>>
  ELSE <<IntOf(SubSeq(value, 1, Len(value) - 1))[1] * 10
         + Find(Digits, value[Len(value)]) - 1>>

\* "\n".join(data_lines)
RECURSIVE JoinLines(_)
JoinLines(data_lines) ==
  IF data_lines = <<>> THEN <<>>
  ELSE IF Len(data_lines) = 1 THEN data_lines[1]
  ELSE data_lines[1] \o <<LF>> \o JoinLines(Tail(data_lines))

SSEEvent(event_type, data, id, retry) ==
  [event_type |-> event_type, data |-> data, id |-> id, retry |-> retry]

\* The text "message", "event", "data", "id", "retry", character by
\* character.
TextMessage == <<"m", "e", "s", "s", "a", "g", "e">>

TextEvent == <<"e", "v", "e", "n", "t">>

TextData == <<"d", "a", "t", "a">>

TextId == <<"i", "d">>

TextRetry == <<"r", "e", "t", "r", "y">>

\* The decoder's locals before the first chunk, with no event yielded.
DecoderStart ==
  [buffer |-> <<>>, event_type |-> TextMessage, data_lines |-> <<>>,
   event_id |-> <<>>, retry |-> <<>>, events |-> <<>>]

\* The field assignments for one field line.
set_field(d, name, value) ==
  IF name = TextEvent THEN [d EXCEPT !.event_type = value]
  ELSE IF name = TextData
  THEN [d EXCEPT !.data_lines = Append(d.data_lines, value)]
  ELSE IF name = TextId
  THEN IF Find(value, "NUL") = 0 THEN [d EXCEPT !.event_id = value] ELSE d
  ELSE IF name = TextRetry
  THEN IF IntOf(value) # <<>> THEN [d EXCEPT !.retry = IntOf(value)] ELSE d
  ELSE d

\* yield SSEEvent(...) when data_lines is not empty.
yield_event(d) ==
  IF d.data_lines # <<>>
  THEN [d EXCEPT !.events =
          Append(d.events, SSEEvent(d.event_type, JoinLines(d.data_lines),
                                    d.event_id, d.retry))]
  ELSE d

\* handle_line without the reset of event_type on an empty line.
handle_line_keep_name(d, line) ==
  IF line = <<>>
  THEN [yield_event(d) EXCEPT !.data_lines = <<>>]
  ELSE IF line[1] = ":" THEN d
  ELSE set_field(d, ParseField(line).name, ParseField(line).value)

\* The body of `while "\n" in buffer` for one line.
handle_line(d, line) ==
  IF line = <<>>
  THEN [yield_event(d) EXCEPT !.event_type = TextMessage, !.data_lines = <<>>]
  ELSE IF line[1] = ":" THEN d
  ELSE set_field(d, ParseField(line).name, ParseField(line).value)

\* while "\n" in buffer: line, buffer = buffer.split("\n", 1); ...
RECURSIVE consume_lines(_)
consume_lines(d) ==
  LET k == Find(d.buffer, LF)
  IN  IF k = 0 THEN d
      ELSE consume_lines(
             handle_line([d EXCEPT !.buffer = SubSeq(d.buffer, k + 1,
                                                      Len(d.buffer))],
                         SubSeq(d.buffer, 1, k - 1)))

\* The body of `async for chunk in stream` for one chunk.
feed(d, chunk) ==
  consume_lines(
    [d EXCEPT !.buffer =
       replace_cr(replace_crlf(d.buffer \o decode_utf8(chunk)))])

\* The code after the loop: the unterminated last line, then the last
\* event.
finish(d) ==
  yield_event(
    IF d.buffer # <<>> /\ d.buffer[1] # ":"
    THEN set_field(d, ParseField(d.buffer).name, ParseField(d.buffer).value)
    ELSE d)

RECURSIVE feed_all(_, _)
feed_all(d, chunks) ==
  IF chunks = <<>> THEN d ELSE feed_all(feed(d, chunks[1]), Tail(chunks))

\* The events sse_decode yields for a stream that delivers these chunks.
sse_decode(chunks) == finish(feed_all(DecoderStart, chunks)).events

\* A stream is followed up to this many lines.
MaxLines == 2

\* The lines of the streams: data:a, data: U+00E9, the empty line, id:1,
\* a comment, event:e and retry:5.
SseLines ==
  {<<"d", "a", "t", "a", ":", "a">>,
   <<"d", "a", "t", "a", ":", "SP", "C3", "A9">>,
   <<>>,
   <<"i", "d", ":", "1">>,
   <<":", "c">>,
   <<"e", "v", "e", "n", "t", ":", "e">>,
   <<"r", "e", "t", "r", "y", ":", "5">>}

LineEndings == {<<LF>>, <<CR, LF>>, <<CR>>}

\* The lines, each followed by the line ending, except the last one when
\* the stream ends without a final line ending.
RECURSIVE Stream(_, _, _)
Stream(lines, ending, terminated) ==
  IF lines = <<>> THEN <<>>
  ELSE IF Len(lines) = 1
  THEN lines[1] \o (IF terminated THEN ending ELSE <<>>)
  ELSE lines[1] \o ending \o Stream(Tail(lines), ending, terminated)

Streams ==
  {Stream(ls, e, t) :
     ls \in UNION {[1 .. n -> SseLines] : n \in 1 .. MaxLines},
     e \in LineEndings, t \in BOOLEAN} \ {<<>>}

\* No stream is being decoded.
SseIdle ==
  /\ sseStream = <<>>
  /\ ssePos = 0
  /\ sseDec = DecoderStart
  /\ sseDone = FALSE

\* No library function is being called.
CallIdle == call = <<>> /\ callRet = <<>>

\* Neither the retry engine nor the decoder nor a library function is in
\* use.
OtherIdle == RetryIdle /\ SseIdle /\ CallIdle

\* The stream delivers its next chunk, of any length.
SseChunk ==
  /\ ~sseDone
  /\ ssePos < Len(sseStream)
  /\ \E n \in 1 .. Len(sseStream) - ssePos :
       /\ sseDec' = feed(sseDec, SubSeq(sseStream, ssePos + 1, ssePos + n))
       /\ ssePos' = ssePos + n
  /\ UNCHANGED <<sseStream, sseDone, authVars, wall, cbVars, retryVars, callVars>>

\* A stream is followed up to this many field lines when it is delivered
\* line by line.
MaxFields == 5

LineData == <<"d", "a", "t", "a", ":", "a">>

LineEvent == <<"e", "v", "e", "n", "t", ":", "e">>

LineId1 == <<"i", "d", ":", "1">>

LineIdNul == <<"i", "d", ":", "2", "NUL">>

LineRetry == <<"r", "e", "t", "r", "y", ":", "5">>

\* The lines of the streams delivered line by line: a data field, the
\* empty line, an event name, an id, an id with a NUL in it and a retry.
FieldLines == {LineData, <<>>, LineEvent, LineId1, LineIdNul, LineRetry}

\* Streams of complete lines that end with LF.
LineStreams ==
  {Stream(ls, <<LF>>, TRUE) :
     ls \in UNION {[1 .. n -> FieldLines] : n \in 1 .. MaxFields}}

\* The number of bytes from position pos to the end of the n-th next line.
RECURSIVE LinesEnd(_, _, _)
LinesEnd(bytes, pos, n) ==
  IF n = 0 THEN pos
  ELSE LET k == Find(SubSeq(bytes, pos + 1, Len(bytes)), LF)
       IN  IF k = 0 THEN Len(bytes) ELSE LinesEnd(bytes, pos + k, n - 1)

\* The stream delivers a chunk of one or two complete lines.
SseLine ==
  /\ ~sseDone
  /\ ssePos < Len(sseStream)
  /\ \E n \in 1 .. 2 :
       LET end == LinesEnd(sseStream, ssePos, n)
       IN  /\ LinesEnd(sseStream, ssePos, n - 1) < end
           /\ sseDec' = feed(sseDec, SubSeq(sseStream, ssePos + 1, end))
           /\ ssePos' = end
  /\ UNCHANGED <<sseStream, sseDone, authVars, wall, cbVars, retryVars, callVars>>

\* The stream ends.
SseEnd ==
  /\ ~sseDone
  /\ ssePos = Len(sseStream)
  /\ sseDec' = finish(sseDec)
  /\ sseDone' = TRUE
  /\ UNCHANGED <<sseStream, ssePos, authVars, wall, cbVars, retryVars, callVars>>

-----------------------------------------------------------------------------
(* Response normalisation (cheval.py).  A JSON value is a record with its  *)
(* type t; a JSON field that is absent from its object has type "absent". *)

Absent == [t |-> "absent"]

Null == [t |-> "null"]

Num == [t |-> "num"]

Str(s) == [t |-> "str", s |-> s]

\* A JSON array of these items, a JSON object with these fields.
Arr(items) == [t |-> "arr", items |-> items]

\* dict.get(key) and dict.get(key, default) read Absent as the default.
IsDict(v) == v.t = "obj"

\* Python's truth value of a JSON value that is present.
TruthyJson(v) ==
  CASE v.t = "absent" -> FALSE
    [] v.t = "null" -> FALSE
    [] v.t = "str" -> v.s # ""
    [] v.t = "arr" -> v.items # <<>>
    [] v.t = "int" -> v.n # 0
    [] OTHER -> TRUE

\* str.strip() on the texts fed.
strip(s) ==
  CASE s = "  " -> ""
    [] s = " think " -> "think"
    [] OTHER -> s

\* What a function did: it returned a value or raised an exception.
Return(value) == [kind |-> "returned", value |-> value]

Raise(exception) == [kind |-> "raised", exception |-> exception]

\* The tool calls a response is allowed this many of.
MaxCalls == 2

\* The entries of a tool_calls array: a string, an object without
\* "function", and objects whose "function" is null, a string, an object
\* without a name, with an empty name and with a name.
FunctionValues ==
  {Absent, Null, Str("f"),
   [t |-> "obj", name |-> Absent],
   [t |-> "obj", name |-> Str("")],
   [t |-> "obj", name |-> Str("f")]}

ToolCallEntries ==
  {Str("not_a_dict")} \cup {[t |-> "obj", function |-> f] : f \in FunctionValues}

\* The values of message.tool_calls.
ToolCallValues ==
  {Absent, Null, Num}
  \cup {Arr(items) : items \in UNION {[1 .. n -> ToolCallEntries] : n \in 0 .. MaxCalls}}

\* The values of message.reasoning_content.
ReasoningValues ==
  {Absent, Null, Num, Str(""), Str("  "), Str("think"), Str(" think ")}

ProviderTypes == {"openai", "openai-compatible", "anthropic"}

\* The provider responses: no choices, or one choice with a message.
RawResponses ==
  {[choices |-> <<>>]}
  \cup {[choices |-> <<[message |-> [reasoning_content |-> r, tool_calls |-> c]]>>] :
          r \in ReasoningValues, c \in ToolCallValues}

\* extract_thinking: <<>> for None.
extract_thinking(raw, provider_type) ==
  IF raw.choices = <<>> THEN <<>>
  ELSE LET reasoning == raw.choices[1].message.reasoning_content
       IN  IF /\ provider_type \in {"openai-compatible"}
              /\ TruthyJson(reasoning)
              /\ reasoning.t = "str"
              /\ strip(reasoning.s) # ""
           THEN <<reasoning.s>>
           ELSE <<>>

\* One pass of `for call in raw_calls`: the entry appended to result, none
\* when the entry is skipped, or the exception that leaves the loop.
tool_call_pass(entry) ==
  IF ~IsDict(entry) THEN Return(<<>>)
  ELSE LET func == IF entry.function = Absent
                   THEN [t |-> "obj", name |-> Absent]
                   ELSE entry.function
       IN  IF ~IsDict(func) THEN Raise("AttributeError")
           ELSE IF ~TruthyJson(func.name) THEN Return(<<>>)
           ELSE Return(<<[type |-> "function", name |-> func.name.s]>>)

\* The loop of _extract_tool_calls over the entries from index i on.
RECURSIVE tool_call_loop(_, _, _)
tool_call_loop(items, i, result) ==
  IF i > Len(items) THEN Return(result)
  ELSE LET r == tool_call_pass(items[i])
       IN  IF r.kind = "raised" THEN r
           ELSE tool_call_loop(items, i + 1, result \o r.value)

\* _extract_tool_calls: returns <<>> for None, else <<the list>>.
_extract_tool_calls(message) ==
  LET raw_calls == message.tool_calls
  IN  IF ~TruthyJson(raw_calls) THEN Return(<<>>)
      ELSE IF raw_calls.t # "arr" THEN Raise("TypeError")
      ELSE LET r == tool_call_loop(raw_calls.items, 1, <<>>)
           IN  IF r.kind = "raised" THEN r
               ELSE IF r.value # <<>> THEN Return(<<r.value>>)
               ELSE Return(<<>>)

_empty_result == [thinking |-> <<>>, tool_calls |-> <<>>]

\* normalize_response, as far as thinking and tool_calls go.
normalize_response(raw, provider_type) ==
  IF raw.choices = <<>> THEN Return(_empty_result)
  ELSE LET tool_calls == _extract_tool_calls(raw.choices[1].message)
       IN  IF tool_calls.kind = "raised" THEN tool_calls
           ELSE Return([thinking |-> extract_thinking(raw, provider_type),
                        tool_calls |-> tool_calls.value])

\* normalize_response is called on a provider response.
Normalize ==
  /\ call # <<>>
  /\ call[1].fn = "normalize_response"
  /\ callRet = <<>>
  /\ callRet' = <<normalize_response(call[1].raw, call[1].provider_type)>>
  /\ UNCHANGED <<call, authVars, wall, cbVars, retryVars, sseVars>>

\* A JSON integer, and a JSON number with a fraction.
Whole(n) == [t |-> "int", n |-> n]

Float == [t |-> "float"]

\* The values of message.content.
ContentValues ==
  {Absent, Null, Num, Str(""), Str("hi"), Arr(<<>>), Arr(<<Str("hi")>>)}

\* The messages of a choice: JSON objects.
Messages ==
  {[t |-> "obj", content |-> c, reasoning_content |-> r, tool_calls |-> k] :
     c \in ContentValues,
     r \in {Absent, Str("think")},
     k \in {Absent, Null, Num, Arr(<<>>),
            Arr(<<[t |-> "obj", function |-> Null]>>),
            Arr(<<[t |-> "obj", function |-> [t |-> "obj", name |-> Str("f")]]>>)}}

\* The values of choices: absent, null, a number, a string, an object, and
\* arrays: empty, or of one entry that is null, a number, or an object whose
\* message is absent, null, a number, a string or an object.
ChoicesValues ==
  {Absent, Null, Num, Str("x"), [t |-> "obj", a |-> Num], Arr(<<>>),
   Arr(<<Null>>), Arr(<<Num>>)}
  \cup {Arr(<<[t |-> "obj", message |-> m]>>) :
          m \in {Absent, Null, Num, Str("x")} \cup Messages}

\* The values of a token count.
CountValues == {Absent, Null, Whole(0), Whole(7), Str("7"), Float}

\* The values of usage.
UsageValues ==
  {Absent, Null, Num, Str("x")}
  \cup {[t |-> "obj", prompt_tokens |-> p, completion_tokens |-> c,
         reasoning_tokens |-> r] :
          p \in CountValues, c \in {Absent, Whole(5)}, r \in {Absent, Null}}

\* The provider responses as JSON objects of any shape.
JsonResponses ==
  {[t |-> "obj", choices |-> c, usage |-> u] :
     c \in ChoicesValues, u \in UsageValues}

\* `{}`, the default of choices[0].get("message", {}) and of a usage that
\* is no dict.
EmptyMessage ==
  [t |-> "obj", content |-> Absent, reasoning_content |-> Absent,
   tool_calls |-> Absent]

EmptyUsage ==
  [t |-> "obj", prompt_tokens |-> Absent, completion_tokens |-> Absent,
   reasoning_tokens |-> Absent]

\* `value or default`.
Or(value, default) == IF TruthyJson(value) THEN value ELSE default

\* _extract_usage: each count is `usage.get(key, 0) or 0`.
_extract_usage(raw) ==
  LET usage == IF IsDict(raw.usage) THEN raw.usage ELSE EmptyUsage
  IN  [prompt_tokens |-> Or(usage.prompt_tokens, Whole(0)),
       completion_tokens |-> Or(usage.completion_tokens, Whole(0)),
       reasoning_tokens |-> Or(usage.reasoning_tokens, Whole(0))]

\* The head of normalize_response: `choices = raw.get("choices", [])`,
\* `if not choices` and `choices[0].get("message", {})`.  Returns <<>> for
\* the empty result, else <<message>>, or raises what the lookup raises.
first_message(raw) ==
  LET choices == raw.choices
  IN  IF ~TruthyJson(choices) THEN Return(<<>>)
      ELSE CASE choices.t = "arr" ->
                  IF ~IsDict(choices.items[1]) THEN Raise("AttributeError")
                  ELSE Return(<<IF choices.items[1].message = Absent
                                THEN EmptyMessage
                                ELSE choices.items[1].message>>)
             [] choices.t = "str" -> Raise("AttributeError")
             [] choices.t = "obj" -> Raise("KeyError")
             [] OTHER -> Raise("TypeError")

\* normalize_response on a JSON object of any shape: content, thinking,
\* tool_calls and usage of the result.
normalize_response_json(raw, provider_type) ==
  LET m == first_message(raw)
  IN  IF m.kind = "raised" THEN m
      ELSE IF m.value = <<>>
      THEN Return([content |-> Str(""), thinking |-> <<>>, tool_calls |-> <<>>,
                   usage |-> _extract_usage(raw)])
      ELSE LET message == m.value[1]
           IN  IF ~IsDict(message) THEN Raise("AttributeError")
               ELSE LET rest == normalize_response(
                                  [choices |-> <<[message |-> message]>>],
                                  provider_type)
                    IN  IF rest.kind = "raised" THEN rest
                        ELSE Return([content |-> Or(message.content, Str("")),
                                     thinking |-> rest.value.thinking,
                                     tool_calls |-> rest.value.tool_calls,
                                     usage |-> _extract_usage(raw)])

\* normalize_response is called on a JSON object of any shape.
NormalizeJson ==
  /\ call # <<>>
  /\ call[1].fn = "normalize_response_json"
  /\ callRet = <<>>
  /\ callRet' = <<normalize_response_json(call[1].raw, call[1].provider_type)>>
  /\ UNCHANGED <<call, authVars, wall, cbVars, retryVars, sseVars>>

-----------------------------------------------------------------------------
(* Request building (cheval.py): the wire body of a canonical request, as  *)
(* far as messages, tools and tool_choice go.                              *)

\* The messages a canonical request has at most.
MaxMessages == 2

Roles == {"user", "assistant"}

\* The canonical messages: content absent, null and set, tool_calls
\* absent, empty and set.
CanonicalMessages ==
  {[role |-> r, content |-> c, tool_calls |-> k] :
     r \in Roles,
     c \in {Absent, Null, Str("hi")},
     k \in {Absent, Arr(<<>>), Arr(<<Str("call_1")>>)}}

\* The canonical requests.
CanonicalRequests ==
  {[messages |-> m, tools |-> t, tool_choice |-> c] :
     m \in UNION {[1 .. n -> CanonicalMessages] : n \in 0 .. MaxMessages},
     t \in {Absent, Arr(<<>>), Arr(<<Str("tool_1")>>)},
     c \in {Absent, Null, Str("auto")}}

\* The body of `for msg in messages`: the wire message of one canonical
\* message; a key that is not set is Absent.
convert_message(msg) ==
  [role |-> msg.role,
   content |-> IF msg.content \notin {Absent, Null} THEN msg.content
               ELSE IF msg.role = "assistant" THEN Absent
               ELSE Str(""),
   tool_calls |-> IF TruthyJson(msg.tool_calls) THEN msg.tool_calls ELSE Absent]

_convert_messages(messages) ==
  [i \in 1 .. Len(messages) |-> convert_message(messages[i])]

build_openai_request(request) ==
  [messages |-> _convert_messages(request.messages),
   tools |-> IF TruthyJson(request.tools) THEN request.tools ELSE Absent,
   tool_choice |-> IF TruthyJson(request.tools) /\ TruthyJson(request.tool_choice)
                   THEN request.tool_choice
                   ELSE Absent]

\* build_openai_request is called on a canonical request.
Build ==
  /\ call # <<>>
  /\ call[1].fn = "build_openai_request"
  /\ callRet = <<>>
  /\ callRet' = <<build_openai_request(call[1].request)>>
  /\ UNCHANGED <<call, authVars, wall, cbVars, retryVars, sseVars>>

-----------------------------------------------------------------------------
(* The usage calculator (usage_calculator.py) and the cost math it calls   *)
(* (pricing.py, which is described by the specification, section 4.1).     *)
(* Token counts are in millions of tokens, rates in units of 100,000       *)
(* micro-USD per million tokens, and costs in units of 100,000 micro-USD,  *)
(* so that the product of a count and a rate is the cost.                  *)

\* The largest product of tokens and rate the cost math accepts: the safe
\* integer range 2^53 - 1, in the units above (2^53 - 1 over 10^11).
MaxSafeProduct == 90071

\* The largest token count fed, in millions of tokens.
HugeTokens == 4000

TokenCounts == {0, 1, 1000, HugeTokens}

\* find_default_pricing: the rates of openai/gpt-4o (2,500,000 and
\* 10,000,000 micro-USD per million input and output tokens, no reasoning
\* rate), <<>> for a model that has no pricing.
find_default_pricing(provider, model) ==
  IF provider = "openai" /\ model = "gpt-4o"
  THEN <<[input_per_mtok |-> 25, output_per_mtok |-> 100, reasoning_per_mtok |-> 0]>>
  ELSE <<>>

\* calculate_cost_micro: the cost, or ValueError BUDGET_OVERFLOW when the
\* product is outside the safe range.
calculate_cost_micro(tokens, price_micro_per_million) ==
  IF tokens * price_micro_per_million > MaxSafeProduct
  THEN Raise("ValueError")
  ELSE Return(tokens * price_micro_per_million)

\* calculate_total_cost: the three components and their sum.
calculate_total_cost(input_tokens, output_tokens, reasoning_tokens, pricing) ==
  LET i == calculate_cost_micro(input_tokens, pricing.input_per_mtok)
      o == calculate_cost_micro(output_tokens, pricing.output_per_mtok)
      r == calculate_cost_micro(reasoning_tokens, pricing.reasoning_per_mtok)
  IN  IF i.kind = "raised" THEN i
      ELSE IF o.kind = "raised" THEN o
      ELSE IF r.kind = "raised" THEN r
      ELSE Return([input_cost_micro |-> i.value, output_cost_micro |-> o.value,
                   reasoning_cost_micro |-> r.value,
                   total_cost_micro |-> i.value + o.value + r.value])

\* compute_cost_estimate without a config: <<>> for None, else <<the cost
\* breakdown>>.
compute_cost_estimate(usage, provider, model) ==
  LET pricing == find_default_pricing(provider, model)
  IN  IF pricing = <<>> THEN Return(<<>>)
      ELSE LET breakdown == calculate_total_cost(usage.prompt_tokens,
                                                 usage.completion_tokens,
                                                 usage.reasoning_tokens, pricing[1])
           IN  IF breakdown.kind = "raised" THEN breakdown
               ELSE Return(<<breakdown.value>>)

\* A usage record and a result; `cost` and `usage` are <<>> when the key
\* is absent.
Usage(p, c, r, cost) ==
  [prompt_tokens |-> p, completion_tokens |-> c, reasoning_tokens |-> r, cost |-> cost]

Usages == {Usage(p, c, r, <<>>) : p \in TokenCounts, c \in TokenCounts, r \in TokenCounts}

Results == {[content |-> "Hello", usage |-> u] : u \in {<<>>} \cup {<<x>> : x \in Usages}}

\* enrich_response_with_cost: the result and the usage objects passed in as
\* they are when the call ends, and what the call returns or raises.
enrich_response_with_cost(result, provider, model) ==
  LET enriched == result
      cost == compute_cost_estimate(result.usage[1], provider, model)
  IN  IF result.usage = <<>> THEN [result |-> result, out |-> Return(enriched)]
      ELSE IF cost.kind = "raised" THEN [result |-> result, out |-> cost]
      ELSE IF cost.value # <<>>
      THEN [result |-> result,
            out |-> Return([enriched EXCEPT
                      !.usage = <<[result.usage[1] EXCEPT !.cost = cost.value]>>])]
      ELSE [result |-> result, out |-> Return(enriched)]

\* enrich_response_with_cost is called on a normalised result.
Enrich ==
  /\ call # <<>>
  /\ call[1].fn = "enrich_response_with_cost"
  /\ callRet = <<>>
  /\ LET r == enrich_response_with_cost(call[1].result, call[1].provider, call[1].model)
     IN  /\ call' = <<[call[1] EXCEPT !.result = r.result]>>
         /\ callRet' = <<r.out>>
  /\ UNCHANGED <<authVars, wall, cbVars, retryVars, sseVars>>

-----------------------------------------------------------------------------
(* The one-shot mode (cheval.py, run_machine_mode).  The request file is   *)
(* "missing", "unreadable" (a directory), or holds "notjson", "notutf8",   *)
(* "notobject" (JSON that is no object), or a JSON object: "noprov"        *)
(* without provider base_url and api_key, "nomodel" without model,         *)
(* "valid".  Its hmac field is signed under key `signed_with` ("" when     *)
(* there is no signature, "nonascii" for a signature that is not ASCII)    *)
(* with an issued_at that is "fresh", "stale" or "garbage".                *)

RequestFiles ==
  {"missing", "unreadable", "notjson", "notutf8", "notobject", "noprov",
   "nomodel", "valid"}

\* How the provider exchange of a one-shot run ends: a 200 with a JSON
\* body, a 200 whose body is not JSON, or a ChevalError out of
\* invoke_with_retry with that code.
OneShotOutcomes == {"ok", "nonjson", "provider_error", "network_error"}

\* What a run did: its exit code, what it printed on stdout ("result",
\* "error" or "none"), whether a provider request was sent and whether the
\* HMAC verification had passed.
Exit(code, printed, sent, verified) ==
  [code |-> code, printed |-> printed, sent |-> sent, verified |-> verified]

\* An exception nobody catches: the interpreter prints the traceback and
\* exits with status 1.
Uncaught(verified) == Exit(1, "none", FALSE, verified)

\* verify_hmac: the signature is the HMAC under this secret and issued_at
\* parses and is within the skew; "raise" when compare_digest raises
\* TypeError on a signature that is not ASCII.
verify_hmac(signed_with, issued_at, hmac_secret) ==
  IF signed_with = "nonascii" THEN "raise"
  ELSE IF signed_with # hmac_secret THEN "false"
  ELSE IF issued_at = "fresh" THEN "true" ELSE "false"

run_machine_mode(r) ==
  IF r.schema_version # 1 THEN Exit(4, "none", FALSE, FALSE)
  ELSE IF r.file \in {"missing", "notjson"} THEN Exit(4, "none", FALSE, FALSE)
  ELSE IF r.file \in {"unreadable", "notutf8", "notobject"} THEN Uncaught(FALSE)
  ELSE IF r.hmac_secret = "" THEN Exit(3, "none", FALSE, FALSE)
  ELSE LET first == verify_hmac(r.signed_with, r.issued_at, r.hmac_secret)
           valid == IF first = "false" /\ r.hmac_secret_prev # ""
                    THEN verify_hmac(r.signed_with, r.issued_at, r.hmac_secret_prev)
                    ELSE first
       IN  IF valid = "raise" THEN Uncaught(FALSE)
           ELSE IF valid = "false" THEN Exit(3, "none", FALSE, FALSE)
           ELSE IF r.file = "noprov" THEN Exit(4, "none", FALSE, TRUE)
           ELSE IF r.file = "nomodel" THEN Uncaught(TRUE)
           ELSE CASE r.outcome = "network_error" -> Exit(2, "error", TRUE, TRUE)
                  [] r.outcome = "provider_error" -> Exit(1, "error", TRUE, TRUE)
                  [] r.outcome = "nonjson" -> Exit(1, "error", TRUE, TRUE)
                  [] OTHER -> Exit(0, "result", TRUE, TRUE)

\* The one-shot runs of the model.
OneShotRuns ==
  [fn : {"run_machine_mode"}, schema_version : {1, 2}, file : RequestFiles,
   hmac_secret : {"", "s1"}, hmac_secret_prev : {"", "s0"},
   signed_with : {"", "s1", "s0", "sx", "nonascii"},
   issued_at : {"fresh", "stale", "garbage"}, outcome : OneShotOutcomes]

\* A one-shot run, from its start to its exit.
RunMachineMode ==
  /\ call # <<>>
  /\ call[1].fn = "run_machine_mode"
  /\ callRet = <<>>
  /\ callRet' = <<run_machine_mode(call[1])>>
  /\ UNCHANGED <<call, authVars, wall, cbVars, retryVars, sseVars>>

-----------------------------------------------------------------------------
(* The state file as any content.  _read_state above is the case of a file *)
(* that _write_state wrote for this provider; here the file may hold       *)
(* anything: nothing at all or the beginning of a state (what a reader     *)
(* finds between the ftruncate and the end of the write of a concurrent    *)
(* _write_state), text that is not JSON, bytes that are not UTF-8, or any  *)
(* JSON value.                                                             *)

Missing == [kind |-> "missing"]

Bytes(kind) == [kind |-> kind]

\* A JSON object: its "provider" if it has one, and the rest of its fields
\* as a state, with or without the field "state".
Obj(provider, has_state, state) ==
  [t |-> "obj", provider |-> provider, has_state |-> has_state,
   state |-> state]

Json(value) == [kind |-> "json", value |-> value]

\* What _write_state leaves for this provider, "p".
Written(state) == Json(Obj(<<"p">>, TRUE, state))

\* The states the files fed hold.
FileStates ==
  {_default_state,
   [_default_state EXCEPT !.failure_count = 1, !.last_failure_ts = <<1>>],
   [_default_state EXCEPT !.state = OPEN, !.opened_at = <<1>>,
                          !.failure_count = FailureThreshold,
                          !.last_failure_ts = <<1>>],
   [_default_state EXCEPT !.state = HALF_OPEN, !.opened_at = <<1>>,
                          !.failure_count = FailureThreshold,
                          !.last_failure_ts = <<1>>]}

FileContents ==
  {Missing, Bytes("empty"), Bytes("partial"), Bytes("garbage"),
   Bytes("not_utf8")}
  \cup {Json(v) : v \in {Null, Num, Str("x"), Arr(<<>>)}}
  \cup {Json(Obj(p, h, s)) :
          p \in {<<>>, <<"p">>, <<"q">>}, h \in BOOLEAN, s \in FileStates}

\* with open(path, "r") as f: json.load(f).  The text is decoded first.
json_load(content) ==
  CASE content.kind = "not_utf8" -> Raise("UnicodeDecodeError")
    [] content.kind = "json" -> Return(content.value)
    [] OTHER -> Raise("JSONDecodeError")

\* _read_state on any content: data.get is called on whatever was parsed,
\* and only JSONDecodeError and OSError are caught.
_read_state_any(content) ==
  IF content = Missing
  THEN Return(_default_state)
  ELSE LET data == json_load(content)
       IN  IF data.kind = "raised"
           THEN IF data.exception \in {"JSONDecodeError", "OSError"}
                THEN Return(_default_state)
                ELSE data
           ELSE IF ~IsDict(data.value)
           THEN Raise("AttributeError")
           ELSE IF data.value.provider # <<"p">> \/ ~data.value.has_state
           THEN Return(_default_state)
           ELSE Return(data.value.state)

BreakerCalls ==
  {"check_state", "record_failure", "record_success", "increment_probe"}

\* The call fn on the state it read.
breaker_call(fn, file, now) ==
  CASE fn = "check_state" -> check_state(file, now)
    [] fn = "record_failure" -> record_failure(file, now)
    [] fn = "record_success" -> record_success(file)
    [] fn = "increment_probe" -> increment_probe(file)

\* The call fn on a file of any content: no call catches what _read_state
\* raises; otherwise it goes on with the state read, and the file keeps its
\* content unless the call writes.
breaker_call_any(fn, content, now) ==
  LET read == _read_state_any(content)
  IN  IF read.kind = "raised"
      THEN [kind |-> "raised", exception |-> read.exception,
            content |-> content]
      ELSE LET r == breaker_call(fn, _write_state(read.value), now)
           IN  [kind |-> "returned", value |-> r.ret,
                content |-> IF r.file = _write_state(read.value)
                            THEN content
                            ELSE Written(r.file[1])]

\* One breaker call on the file as it is found.
BreakerCall ==
  /\ call # <<>>
  /\ call[1].fn \in BreakerCalls
  /\ callRet = <<>>
  /\ callRet' = <<breaker_call_any(call[1].fn, call[1].content, wall)>>
  /\ UNCHANGED <<call, authVars, wall, cbVars, retryVars, sseVars>>

-----------------------------------------------------------------------------
(* Requests.                                                               *)

NonceIds == {"n1", "n2", "n3"}

\* How the provider exchange of one /invoke ends.
ProviderOutcomes == {"200", "error"}

Request(f, signature) ==
  [method |-> f.method, path |-> f.path, body |-> f.body,
   signature |-> signature, nonce |-> f.nonce, issued_at |-> f.issued_at,
   trace_id |-> f.trace_id]

FieldsOf(r) ==
  Fields(r.method, r.path, r.body, r.issued_at, r.nonce, r.trace_id)

NoRequest == Request(Fields("", "", "", IssuedEmpty, "", ""), SigEmpty)

\* The field tuples that differ from f in exactly one field.
OneFieldChanged(f) ==
  ({[f EXCEPT !.method = m] : m \in {"GET", "POST", "PUT"}}
   \cup {[f EXCEPT !.path = x] : x \in {"/invoke", "/invoke/stream"}}
   \cup {[f EXCEPT !.body = b] : b \in {"valid", "notjson"}}
   \cup {[f EXCEPT !.issued_at = Utc(f.issued_at.t + d)] : d \in {-1, 1}}
   \cup {[f EXCEPT !.nonce = n] : n \in NonceIds}
   \cup {[f EXCEPT !.trace_id = t] : t \in {"t1", "t2"}}) \ {f}

\* The signature headers tried with fields f: none, ASCII and non-ASCII
\* text, f signed under the current, the previous, a foreign and the empty
\* key, and a tuple one field away from f signed under a server key.
SignaturesFor(f) ==
  {SigEmpty, TextSig("junk", TRUE), TextSig("junk", FALSE)}
  \cup {Sign(k, f) : k \in {"k1", "k0", "kx", ""}}
  \cup {Sign(k, g) : k \in {"k1", "k0"}, g \in OneFieldChanged(f)}

\* The requests the verification model decides, at wall time `now`.
VerifyFields(now) ==
  {Fields("POST", x, b, i, n, t) :
     x \in {"/invoke", "/invoke/stream"}, b \in {"valid", "notjson"},
     i \in {IssuedEmpty, IssuedAt("garbage", 0), IssuedAt("naive", now)}
           \cup {Utc(now + d) : d \in -(SkewSeconds + 1)..(SkewSeconds + 1)},
     n \in {"", "n1"}, t \in {"", "t1"}}
  \cup {Fields("GET", x, "valid", i, n, "t1") :
          x \in {"/healthz", "/invoke"}, i \in {IssuedEmpty, Utc(now)},
          n \in {"", "n1"}}

VerifyRequests(now) ==
  UNION {{Request(f, g) : g \in SignaturesFor(f)} : f \in VerifyFields(now)}

\* The requests the nonce model serves, at wall time `now`.
\* Per nonce: a fresh request signed under the current secret (with and
\* without a provider), a stale one, one signed under a foreign key and one
\* with a non-ASCII signature; besides, a request without headers and a GET.
NonceRequests(now) ==
  UNION {LET f == Fields("POST", "/invoke", "valid", Utc(now), n, "t1")
             g == [f EXCEPT !.body = "noprov"]
             h == [f EXCEPT !.issued_at = Utc(now - SkewSeconds - 1)]
         IN  {Request(f, Sign("k1", f)), Request(g, Sign("k1", g)),
              Request(h, Sign("k1", h)), Request(f, Sign("kx", f)),
              Request(f, TextSig("junk", FALSE))} : n \in NonceIds}
  \cup {Request(Fields("POST", "/invoke", "valid", IssuedEmpty, "", ""),
                SigEmpty),
        Request(Fields("GET", "/healthz", "", IssuedEmpty, "", ""), SigEmpty)}

\* The bodies a POST /invoke may carry.
Bodies == {"valid", "notjson", "notutf8", "notobject", "noprov", "nomodel"}

\* The requests the /invoke model serves, at wall time `now`: POST /invoke
\* signed under the current secret, for every nonce and body, and one
\* signed under a foreign key.
InvokeRequests(now) ==
  {LET f == Fields("POST", "/invoke", b, Utc(now), n, "t1")
   IN  Request(f, Sign("k1", f)) : n \in NonceIds, b \in Bodies}
  \cup {LET f == Fields("POST", "/invoke", "valid", Utc(now), "n1", "t1")
        IN  Request(f, Sign("kx", f))}

\* The requests the /invoke/stream model serves, at wall time `now`: POST
\* /invoke/stream signed under the current secret, for every nonce, with a
\* valid body, a body that is not JSON and a body without provider; one
\* without any HMAC header; and one whose signature was made for /invoke.
StreamRequests(now) ==
  {LET f == Fields("POST", "/invoke/stream", b, Utc(now), n, "t1")
   IN  Request(f, Sign("k1", f)) : n \in NonceIds, b \in {"valid", "notjson", "noprov"}}
  \cup {Request(Fields("POST", "/invoke/stream", "valid", IssuedEmpty, "", ""), SigEmpty)}
  \cup {LET f == Fields("POST", "/invoke/stream", "valid", Utc(now), "n1", "t1")
        IN  Request(f, Sign("k1", [f EXCEPT !.path = "/invoke"]))}

-----------------------------------------------------------------------------
(* Actions of the sidecar.                                                 *)

\* The errors of the checks that come before the nonce check.
AuthErrors ==
  {"HMAC_NOT_CONFIGURED", "HMAC_MISSING_HEADERS", "HMAC_INVALID"}

\* A request reaches the server.
Arrive ==
  /\ pc = "idle"
  /\ req' \in NonceRequests(wall)
  /\ pc' = "pending"
  /\ resp' = NoResponse
  /\ UNCHANGED <<secret, secretPrev, mono, wall, cache, pools, ledger,
                 admitTime, admitSince, cbVars, otherVars>>

\* A signed POST /invoke reaches the server.
ArriveInvoke ==
  /\ pc = "idle"
  /\ req' \in InvokeRequests(wall)
  /\ pc' = "pending"
  /\ resp' = NoResponse
  /\ UNCHANGED <<secret, secretPrev, mono, wall, cache, pools, ledger,
                 admitTime, admitSince, cbVars, otherVars>>

\* A POST /invoke/stream reaches the server.
ArriveStream ==
  /\ pc = "idle"
  /\ req' \in StreamRequests(wall)
  /\ pc' = "pending"
  /\ resp' = NoResponse
  /\ UNCHANGED <<secret, secretPrev, mono, wall, cache, pools, ledger,
                 admitTime, admitSince, cbVars, otherVars>>

\* The middleware and, when it passes the request on, the route handler.
Dispatch ==
  /\ pc = "pending"
  /\ \E outcome \in ProviderOutcomes :
       LET s == dispatch(req, outcome, secret, secretPrev, cache, pools,
                         mono, wall)
       IN  /\ resp' = s.resp
           /\ cache' = s.cache
           /\ pools' = s.pools
           /\ admitTime' = IF s.resp.admitted
                           THEN [admitTime EXCEPT ![req.nonce] = mono]
                           ELSE admitTime
           /\ admitSince' =
                IF s.resp.admitted
                THEN [n \in NonceIds |->
                        IF n = req.nonce THEN 0
                        ELSE Min(admitSince[n] + 1, NonceCacheMaxSize)]
                ELSE admitSince
  /\ pc' = "done"
  /\ UNCHANGED <<secret, secretPrev, mono, wall, ledger, req, cbVars,
                 otherVars>>

\* The response has been sent.
Respond ==
  /\ pc = "done"
  /\ pc' = "idle"
  /\ req' = NoRequest
  /\ resp' = NoResponse
  /\ UNCHANGED <<secret, secretPrev, mono, wall, cache, pools, ledger,
                 admitTime, admitSince, cbVars, otherVars>>

\* A second passes between two requests; both clocks advance.
AuthTick ==
  /\ pc = "idle"
  /\ mono < AuthMaxTime
  /\ mono' = mono + 1
  /\ wall' = wall + 1
  /\ UNCHANGED <<secret, secretPrev, cache, pools, ledger, pc, req, resp,
                 admitTime, admitSince, cbVars, otherVars>>

-----------------------------------------------------------------------------
(* Concurrent requests.  The server runs every request as a coroutine on   *)
(* one event loop: a request runs alone from one await to the next, and    *)
(* other requests run while it waits.  The awaits of a signed POST /invoke *)
(* are `await request.body()` in dispatch, `await call_next(request)`      *)
(* between dispatch and the handler, and `await invoke_with_retry_async`   *)
(* in the handler.                                                         *)

\* The requests in flight together, numbered in the order they arrive in.
Tasks == {1, 2}

\* A request in flight: the await it is at, its response so far, the client
\* it got from the pool manager and the time.monotonic() of its nonce check.
Task(at, r, response, client, checked) ==
  [fn |-> "dispatch", at |-> at, req |-> r, resp |-> response,
   client |-> client, checked |-> checked]

NoTask == Task("none", NoRequest, NoResponse, <<>>, -1)

\* The requests served together, at wall time `now`: POST /invoke signed
\* under the current secret, with two nonces, and bodies that name the same
\* provider with two base URLs and another provider.
ConcRequests(now) ==
  {LET f == Fields("POST", "/invoke", b, Utc(now), n, "t1")
   IN  Request(f, Sign("k1", f)) :
     n \in {"n1", "n2"}, b \in {"valid", "valid_u2", "valid_p2"}}

\* A request reaches the server and dispatch runs to `await request.body()`.
ConcArrive(i) ==
  /\ call[i].at = "none"
  /\ \A j \in 1 .. i - 1 : call[j].at # "none"
  /\ \E r \in ConcRequests(wall) :
       call' = [call EXCEPT ![i] = Task("body", r, NoResponse, <<>>, -1)]
  /\ UNCHANGED <<authVars, wall, cbVars, retryVars, sseVars, callRet>>

\* Mutant: the nonce is inserted into a copy of the cache that is dropped
\* when another request waits for its body.
ConcVerify_lost_insert(i) ==
  /\ call[i].at = "body"
  /\ LET r == call[i].req
         s == dispatch(r, "200", secret, secretPrev, cache, pools, mono, wall)
     IN  /\ cache' = IF \E j \in Tasks \ {i} : call[j].at = "body"
                   THEN cache ELSE s.cache
         /\ call' = [call EXCEPT ![i] =
              IF s.resp.admitted
              THEN Task("call_next", r,
                        [NoResponse EXCEPT !.admitted = TRUE,
                                           !.verdict = s.resp.verdict],
                        <<>>, mono)
              ELSE Task("done", r, s.resp, <<>>, mono)]
         /\ admitTime' = IF s.resp.admitted
                         THEN [admitTime EXCEPT ![r.nonce] = mono]
                         ELSE admitTime
         /\ admitSince' =
              IF s.resp.admitted
              THEN [n \in NonceIds |->
                      IF n = r.nonce THEN 0
                      ELSE Min(admitSince[n] + 1, NonceCacheMaxSize)]
              ELSE admitSince
  /\ UNCHANGED <<secret, secretPrev, mono, wall, pools, ledger, pc, req, resp,
                 cbVars, retryVars, sseVars, callRet>>

\* dispatch from `await request.body()` to its return or to
\* `await call_next(request)`: the signature and the nonce are checked.
ConcVerify(i) ==
  /\ call[i].at = "body"
  /\ LET r == call[i].req
         s == dispatch(r, "200", secret, secretPrev, cache, pools, mono, wall)
     IN  /\ cache' = s.cache
         /\ call' = [call EXCEPT ![i] =
              IF s.resp.admitted
              THEN Task("call_next", r,
                        [NoResponse EXCEPT !.admitted = TRUE,
                                           !.verdict = s.resp.verdict],
                        <<>>, mono)
              ELSE Task("done", r, s.resp, <<>>, mono)]
         /\ admitTime' = IF s.resp.admitted
                         THEN [admitTime EXCEPT ![r.nonce] = mono]
                         ELSE admitTime
         /\ admitSince' =
              IF s.resp.admitted
              THEN [n \in NonceIds |->
                      IF n = r.nonce THEN 0
                      ELSE Min(admitSince[n] + 1, NonceCacheMaxSize)]
              ELSE admitSince
  /\ UNCHANGED <<secret, secretPrev, mono, wall, pools, ledger, pc, req, resp,
                 cbVars, retryVars, sseVars, callRet>>

\* The handler from its start to `await invoke_with_retry_async`: the body
\* is parsed and the client is taken from the pool manager.
ConcHandle(i) ==
  /\ call[i].at = "call_next"
  /\ LET r == call[i].req
         h == call_next(r.method, r.path, r.body, "200", pools)
     IN  /\ pools' = h.pools
         /\ call' = [call EXCEPT ![i] =
              IF h.providerCalled
              THEN Task("provider", r, call[i].resp,
                        <<CHOOSE c \in h.pools : c.name = ProviderOf(r.body)>>,
                        call[i].checked)
              ELSE Task("done", r,
                        Response(h.status, h.error, h.handler, TRUE, FALSE,
                                 call[i].resp.verdict),
                        <<>>, call[i].checked)]
  /\ UNCHANGED <<secret, secretPrev, mono, wall, cache, ledger, pc, req, resp,
                 admitTime, admitSince, cbVars, retryVars, sseVars, callRet>>

\* The provider exchange ends and the handler returns.
ConcReturn(i) ==
  /\ call[i].at = "provider"
  /\ \E outcome \in ProviderOutcomes :
       LET r == call[i].req
           h == call_next(r.method, r.path, r.body, outcome, pools)
       IN  call' = [call EXCEPT ![i] =
             Task("done", r,
                  Response(h.status, h.error, h.handler, TRUE, TRUE,
                           call[i].resp.verdict),
                  call[i].client, call[i].checked)]
  /\ UNCHANGED <<authVars, wall, cbVars, retryVars, sseVars, callRet>>

\* A second passes while requests wait; both clocks advance.
ConcTick ==
  /\ mono < AuthMaxTime
  /\ mono' = mono + 1
  /\ wall' = wall + 1
  /\ UNCHANGED <<secret, secretPrev, cache, pools, ledger, pc, req, resp,
                 admitTime, admitSince, cbVars, otherVars>>

-----------------------------------------------------------------------------
(* Specifications of the sidecar.                                          *)

\* No circuit-breaker call has been made and no state file exists.
CbInit ==
  /\ cbFile = <<>>
  /\ cbLast = [op |-> "none", ret |-> "", at |-> 0, pre |-> ""]
  /\ cbStreak = [n |-> 0, start |-> 0, inWindow |-> TRUE]
  /\ cbSince = 0
  /\ cbProbe = NoProbe

\* The environment the process was started in.
ConfigInit ==
  /\ secret \in {"", "k1"}
  /\ secretPrev \in {"", "k0"}
  /\ pools = {}
  /\ ledger = 0

\* The server has just started.
NonceInit ==
  /\ ConfigInit
  /\ secretPrev = "k0"
  /\ mono = 0
  /\ wall = 1
  /\ cache = <<>>
  /\ pc = "idle"
  /\ req = NoRequest
  /\ resp = NoResponse
  /\ admitTime = [n \in NonceIds |-> -1]
  /\ admitSince = [n \in NonceIds |-> 0]
  /\ CbInit
  /\ OtherIdle

NonceNext == Arrive \/ Dispatch \/ Respond \/ AuthTick

SpecNonce == NonceInit /\ [][NonceNext]_vars

\* One request is pending; the cache is empty or holds nonce n1, admitted
\* in this very second.
VerifyInit ==
  /\ ConfigInit
  /\ mono = SkewSeconds + 1
  /\ wall = SkewSeconds + 1
  /\ \E held \in BOOLEAN :
       /\ cache = IF held /\ secret # "" /\ NonceCacheMaxSize > 0
                  THEN <<Entry("n1", mono + SkewSeconds * 2)>> ELSE <<>>
       /\ admitTime = [n \in NonceIds |->
                         IF cache # <<>> /\ n = "n1" THEN mono ELSE -1]
  /\ admitSince = [n \in NonceIds |-> 0]
  /\ pc = "pending"
  /\ req \in VerifyRequests(wall)
  /\ resp = NoResponse
  /\ CbInit
  /\ OtherIdle

VerifyNext == Dispatch

\* The ledger file is followed up to this many lines.
MaxLedger == 1

\* The server has just started with the secret set; the ledger file holds
\* what earlier runs left in it.
InvokeInit ==
  /\ secret = "k1"
  /\ secretPrev = ""
  /\ pools = {}
  /\ ledger \in 0 .. MaxLedger
  /\ mono = 0
  /\ wall = 1
  /\ cache = <<>>
  /\ pc = "idle"
  /\ req = NoRequest
  /\ resp = NoResponse
  /\ admitTime = [n \in NonceIds |-> -1]
  /\ admitSince = [n \in NonceIds |-> 0]
  /\ CbInit
  /\ OtherIdle

InvokeNext == ArriveInvoke \/ Dispatch \/ Respond \/ AuthTick

SpecInvoke == InvokeInit /\ [][InvokeNext]_vars

StreamNext == ArriveStream \/ Dispatch \/ Respond \/ AuthTick

SpecStream == InvokeInit /\ [][StreamNext]_vars

SpecVerify == VerifyInit /\ [][VerifyNext]_vars

-----------------------------------------------------------------------------
(* Claims about request authentication.                                    *)

Ttl == SkewSeconds * 2

\* The four header values of r are all non-empty.
HeadersPresent(r) ==
  /\ ~HeaderEmpty(r.signature)
  /\ r.nonce # ""
  /\ r.issued_at.kind # "empty"
  /\ r.trace_id # ""

\* issued_at parses to an instant within the skew of `now`.
Fresh(r, now) ==
  r.issued_at.kind = "utc" /\ Abs(now - r.issued_at.t) <= SkewSeconds

\* The signature of r is the HMAC of r's own fields under key k.
SignedUnder(r, k) == r.signature = Sign(k, FieldsOf(r))

\* Nonce n is held by cache c and its deadline has not passed at `now`.
Seen(c, n, now) == \E i \in 1..Len(c) : c[i].nonce = n /\ now <= c[i].expiry

\* A step in which the middleware serves the pending request.
Serving == pc = "pending" /\ pc' = "done"

\* C1: verify_hmac_phase3 accepts exactly when issued_at parses and lies
\* within skew_seconds of now and the signature is the HMAC of the canonical
\* string under the current secret or under a configured previous secret;
\* the previous secret is compared only when it is configured and the
\* comparison under the current secret failed; and the middleware lets a
\* non-GET request through only with all four headers non-empty.
C1_VerifyAcceptsIff ==
  pc = "done" =>
    /\ resp.verdict.result # "none" =>
          /\ resp.verdict.result = "true" <=>
                /\ Fresh(req, wall)
                /\ \/ SignedUnder(req, secret)
                   \/ secretPrev # "" /\ SignedUnder(req, secretPrev)
          /\ Len(resp.verdict.compared) <= 2
          /\ Len(resp.verdict.compared) = 2 =>
                /\ resp.verdict.compared = <<secret, secretPrev>>
                /\ secretPrev # ""
                /\ ~SignedUnder(req, secret)
    /\ req.method # "GET" /\ resp.handler # "none" =>
          HeadersPresent(req) /\ resp.verdict.result = "true"

\* C1 witness: a request signed under the previous secret was accepted
\* after the comparison under the current secret failed.
C1_Witness ==
  /\ pc = "done"
  /\ resp.verdict.result = "true"
  /\ Len(resp.verdict.compared) = 2
  /\ resp.handler = "invoke"

\* The signature of r was computed, under a secret of the server, for a
\* field tuple that differs from r's in one field.
SignedForAnother(r) ==
  \E k \in {secret, secretPrev} \ {""} :
    \E g \in OneFieldChanged(FieldsOf(r)) : r.signature = Sign(k, g)

InOrder(r, c, out) ==
  IF r.method = "GET"
  THEN out.handler # "none" /\ ~out.admitted /\ out.verdict = NoVerdict
  ELSE IF secret = ""
  THEN out.status = 500 /\ out.error = "HMAC_NOT_CONFIGURED"
       /\ out.handler = "none"
  ELSE IF ~HeadersPresent(r)
  THEN out.status = 403 /\ out.error = "HMAC_MISSING_HEADERS"
       /\ out.handler = "none"
  ELSE IF ~(/\ Fresh(r, wall)
            /\ \/ SignedUnder(r, secret)
               \/ secretPrev # "" /\ SignedUnder(r, secretPrev))
  THEN out.status = 403 /\ out.error = "HMAC_INVALID" /\ out.handler = "none"
  ELSE IF Seen(c, r.nonce, mono)
  THEN out.status = 403 /\ out.error = "REPLAY_DETECTED"
       /\ out.handler = "none"
  ELSE out.handler # "none"

\* C5: the middleware decides every request in the fixed order GET passes
\* unchecked, 500 HMAC_NOT_CONFIGURED, 403 HMAC_MISSING_HEADERS, 403
\* HMAC_INVALID for an invalid signature or timestamp, 403 REPLAY_DETECTED,
\* and only then the handler; the handler of a non-GET route runs only if
\* every check passed.
C5_FixedOrder == [][Serving => InOrder(req, cache, resp')]_vars

\* C6: a request refused by the middleware sends no provider request,
\* creates no pool and writes nothing to the ledger; refused as
\* HMAC_NOT_CONFIGURED, HMAC_MISSING_HEADERS or HMAC_INVALID it also leaves
\* the nonce cache as it was, so that its nonce, if not held before, would
\* still be admitted.
C6_RefusalHasNoEffect ==
  [][(Serving /\ resp'.handler = "none") =>
       /\ ~resp'.providerCalled
       /\ pools' = pools
       /\ ledger' = ledger
       /\ resp'.error \in AuthErrors =>
             /\ cache' = cache
             /\ (req.nonce # "" /\ ~Seen(cache, req.nonce, mono)) =>
                   check_and_add(cache', req.nonce, Ttl, NonceCacheMaxSize,
                                 mono).ok]_vars

\* C6 witness: a request with an invalid signature was refused while the
\* cache held other nonces and a pool existed; its nonce is not held.
C6_Witness ==
  /\ pc = "done"
  /\ resp.error = "HMAC_INVALID"
  /\ req.nonce \notin CacheNonces(cache)
  /\ cache # <<>>
  /\ pools # {}

\* C2: once admitted, a nonce is refused (REPLAY_DETECTED) by every
\* check_and_add that finds it held and unexpired; an entry leaves the
\* cache only when its deadline, which is its admission time plus twice
\* the skew, is strictly in the past, or when an insertion pushes the cache
\* over capacity.
C2_RefusedUntilEvicted ==
  /\ [][/\ (Serving /\ resp'.verdict.result = "true"
            /\ Seen(cache, req.nonce, mono)) =>
              ~resp'.admitted /\ resp'.error = "REPLAY_DETECTED"
        /\ \A i \in 1..Len(cache) :
              cache[i].nonce \notin CacheNonces(cache') =>
                \/ cache[i].expiry < mono
                \/ /\ Serving
                   /\ resp'.admitted
                   /\ Cardinality({j \in 1..Len(cache) :
                                     mono <= cache[j].expiry}) + 1
                        > NonceCacheMaxSize]_vars
  /\ [](\A i \in 1..Len(cache) :
          cache[i].expiry = admitTime[cache[i].nonce] + Ttl)

\* C2 witness: a validly signed replay arrived in the last second before
\* the nonce's deadline passes and was refused.
C2_Witness ==
  /\ pc = "done"
  /\ resp.error = "REPLAY_DETECTED"
  /\ mono = admitTime[req.nonce] + Ttl

\* C3 as stated: no nonce is admitted twice within twice the skew of its
\* earlier admission, whatever was admitted in between.
C3_SingleUseInWindow ==
  [][(Serving /\ resp'.admitted /\ admitTime[req.nonce] >= 0) =>
       mono - admitTime[req.nonce] > Ttl]_vars

\* C3 as amended: a nonce is admitted again within twice the skew of its
\* earlier admission only if at least max_size other admissions took place
\* in between (they pushed it out of the cache).
C3_SingleUseUnlessPushedOut ==
  [][(Serving /\ resp'.admitted /\ admitTime[req.nonce] >= 0) =>
       \/ mono - admitTime[req.nonce] > Ttl
       \/ admitSince[req.nonce] >= NonceCacheMaxSize]_vars

\* C3 witness: a replay inside the window was refused although another
\* nonce had been admitted in between.
C3_Witness ==
  /\ pc = "done"
  /\ resp.error = "REPLAY_DETECTED"
  /\ admitSince[req.nonce] >= 1
  /\ mono - admitTime[req.nonce] <= Ttl

-----------------------------------------------------------------------------
(* Specification of the circuit breaker: the calls of one provider's       *)
(* breaker, one at a time, in any order, as time passes.  time.time() is   *)
(* read in whole seconds counted from the epoch, which is second 0.        *)

CbSpecInit ==
  /\ ConfigInit
  /\ secret = "k1"
  /\ secretPrev = ""
  /\ mono = 0
  /\ wall = 0
  /\ cache = <<>>
  /\ pc = "idle"
  /\ req = NoRequest
  /\ resp = NoResponse
  /\ admitTime = [n \in NonceIds |-> -1]
  /\ admitSince = [n \in NonceIds |-> 0]
  /\ CbInit
  /\ OtherIdle

CbNext ==
  CheckState \/ RecordFailure \/ RecordSuccess \/ IncrementProbe \/ CbTick

SpecCb == CbSpecInit /\ [][CbNext]_vars

-----------------------------------------------------------------------------
(* Claims about the circuit breaker.                                       *)

\* What the state file holds now.
Persisted == _read_state(cbFile)

\* C7: from CLOSED with failure_count 0, record_failure calls that stay
\* inside the count window with no record_success between them return
\* CLOSED until the failure_threshold-th, which returns OPEN and persists
\* OPEN with opened_at equal to the time of that call; a check_state that
\* follows before the reset timeout returns OPEN.
C7_ThresholdOpens ==
  (/\ cbLast.op = "record_failure"
   /\ cbStreak.inWindow
   /\ cbStreak.n <= FailureThreshold)
  => IF cbStreak.n = FailureThreshold
     THEN /\ cbLast.ret = OPEN
          /\ cbFile # <<>>
          /\ Persisted.state = OPEN
          /\ Persisted.opened_at = <<cbLast.at>>
          /\ (wall - cbLast.at < ResetTimeout
                => check_state(cbFile, wall).ret = OPEN)
     ELSE /\ cbLast.ret = CLOSED
          /\ Persisted.state = CLOSED
          /\ Persisted.failure_count = cbStreak.n

\* The threshold-th failure of a streak has just opened the breaker.
C7_Witness ==
  /\ cbLast.op = "record_failure"
  /\ cbStreak.inWindow
  /\ cbStreak.n = FailureThreshold
  /\ cbStreak.start < cbLast.at
  /\ cbLast.ret = OPEN
  /\ Persisted.opened_at = <<wall>>

\* C8: record_success in CLOSED leaves the breaker CLOSED with
\* failure_count 0, and a record_failure takes the breaker from CLOSED to
\* OPEN only when at least failure_threshold record_failure calls were made
\* since the latest record_success.
C8_SuccessResets ==
  /\ (cbLast.op = "record_success" /\ cbLast.pre = CLOSED
        => /\ cbLast.ret = CLOSED
           /\ Persisted.state = CLOSED
           /\ Persisted.failure_count = 0)
  /\ (cbLast.op = "record_failure" /\ cbLast.pre = CLOSED
      /\ cbLast.ret = OPEN
        => cbSince >= FailureThreshold)

\* A success came between failures and the breaker, still CLOSED, has
\* counted only the failure after it.
C8_Witness ==
  /\ cbLast.op = "record_failure"
  /\ cbLast.pre = CLOSED
  /\ cbLast.ret = CLOSED
  /\ cbSince = 1
  /\ cbStreak.n = 1
  /\ cbStreak.start > 1
  /\ Persisted.failure_count = 1

C10_ProbeSuccessCloses ==
  [][(RecordSuccess /\ Persisted.state = HALF_OPEN)
       => /\ cbLast'.ret = CLOSED
          /\ cbFile' = <<[state |-> CLOSED, failure_count |-> 0,
                          last_failure_ts |-> <<>>, opened_at |-> <<>>,
                          half_open_probes |-> 0]>>
          /\ check_state(cbFile', wall').ret = CLOSED]_vars

\* A probe success has just closed a breaker that had counted failures.
C10_Witness ==
  /\ cbLast.op = "record_success"
  /\ cbLast.pre = HALF_OPEN
  /\ cbLast.ret = CLOSED
  /\ cbFile # <<>>
  /\ Persisted.state = CLOSED

\* C11: record_failure in HALF_OPEN returns OPEN whatever failure_count
\* is, persists OPEN with opened_at equal to the time of the call and
\* half_open_probes 0, and from then on check_state returns OPEN at every
\* time less than reset_timeout after that call and HALF_OPEN from
\* reset_timeout after it.
C11_ProbeFailureReopens ==
  [][(RecordFailure /\ Persisted.state = HALF_OPEN)
       => /\ cbLast'.ret = OPEN
          /\ cbFile' = <<[Persisted EXCEPT !.state = OPEN,
                                          !.opened_at = <<wall>>,
                                          !.half_open_probes = 0]>>
          /\ \A t \in wall .. (wall + ResetTimeout + 1) :
               check_state(cbFile', t).ret =
                 IF t - wall < ResetTimeout THEN OPEN ELSE HALF_OPEN]_vars

\* A probe failed in HALF_OPEN and the breaker, holding a failure count at
\* the threshold, reopened at the time of that failure, later than the last
\* failure it had counted.
C11_Witness ==
  /\ cbLast.op = "record_failure"
  /\ cbLast.pre = HALF_OPEN
  /\ cbLast.ret = OPEN
  /\ Persisted.state = OPEN
  /\ Persisted.opened_at = <<cbLast.at>>
  /\ Persisted.last_failure_ts # <<cbLast.at>>
  /\ Persisted.failure_count >= FailureThreshold

-----------------------------------------------------------------------------
(* Specification of the retry engine: one call of invoke_with_retry_async  *)
(* under some retry configuration, against a provider that may answer each *)
(* request with any outcome.  The awaited coroutine is run to its end: the *)
(* provider answers or the client's timeout fires.                         *)

RetryInit ==
  /\ ConfigInit
  /\ secret = "k1"
  /\ secretPrev = ""
  /\ mono = 0
  /\ wall = 0
  /\ cache = <<>>
  /\ pc = "idle"
  /\ req = NoRequest
  /\ resp = NoResponse
  /\ admitTime = [n \in NonceIds |-> -1]
  /\ admitSince = [n \in NonceIds |-> 0]
  /\ CbInit
  /\ retry_config \in RetryConfigs
  /\ attempt = 0
  /\ last_error = <<>>
  /\ rtResult = Running
  /\ rtOutcomes = <<>>
  /\ SseIdle
  /\ CallIdle

RetryNext == RetryAttempt \/ RetryExhausted

SpecRetry == RetryInit /\ [][RetryNext]_vars /\ WF_vars(RetryNext)

-----------------------------------------------------------------------------
(* Claims about the retry engine.                                          *)

\* The call has ended.
RetryEnded == rtResult.kind \in {"returned", "raised"}

\* The outcome of the request a step has just sent.
Sent == rtOutcomes'[Len(rtOutcomes')]

\* A request was sent in this step.
Sending == Len(rtOutcomes') = Len(rtOutcomes) + 1

\* A failure the engine is to retry: a timeout, a connect failure, or a
\* status of the configured retryable set that is neither 200 nor one of
\* 400, 401, 403, 404.
RetryableFailure(o) ==
  \/ o.kind = "raised" /\ o.exc \in {"ConnectTimeout", "ReadTimeout", "ConnectError"}
  \/ /\ o.kind = "status"
     /\ o.status \notin {200, 400, 401, 403, 404}
     /\ o.status \in retry_config.retryable_codes

\* The error that reports the failure o.
ErrorOf(o) ==
  IF o.kind = "raised"
  THEN [code |-> "network_error", status_code |-> <<>>, retryable |-> TRUE]
  ELSE [code |-> "provider_error", status_code |-> <<o.status>>,
        retryable |-> TRUE]

\* C12: the retry loop sends at most max_retries + 1 requests; a request is
\* sent only after retryable failures, so none follows a 200 or a
\* non-retryable error; when every attempt fails retryably exactly
\* max_retries + 1 are sent; the call ends, and it ends returning a 200
\* response or raising a ChevalError.
C12_BoundedRetries ==
  /\ [](/\ Len(rtOutcomes) <= retry_config.max_retries + 1
        /\ \A i \in 1 .. Len(rtOutcomes) - 1 : RetryableFailure(rtOutcomes[i])
        /\ rtResult.kind = "returned"
             => /\ rtOutcomes # <<>>
                /\ rtOutcomes[Len(rtOutcomes)] =
                     [kind |-> "status", status |-> 200, exc |-> ""]
        /\ rtResult.kind = "raised"
             => /\ Len(rtResult.error) = 1
                /\ rtResult.error[1].code \in {"provider_error", "network_error"}
        /\ (RetryEnded /\ \A i \in 1 .. Len(rtOutcomes) :
                            RetryableFailure(rtOutcomes[i]))
             => /\ Len(rtOutcomes) = retry_config.max_retries + 1
                /\ rtResult.kind = "raised")
  /\ <>RetryEnded

\* Every attempt the configuration allows failed retryably and the call
\* raised after the last of them.
C12_Witness ==
  /\ rtResult.kind = "raised"
  /\ retry_config.max_retries = MaxRetries
  /\ Len(rtOutcomes) = MaxRetries + 1
  /\ \A i \in 1 .. Len(rtOutcomes) : RetryableFailure(rtOutcomes[i])

\* C13: a response with status 200 is returned; a status in {400, 401, 403,
\* 404} raises a non-retryable provider_error at once, even when the status
\* is in the configured retryable set; otherwise a status of the configured
\* set is retried while attempts remain and raised as a retryable
\* provider_error when none does; every other status raises a
\* non-retryable provider_error at once.
C13_StatusPrecedence ==
  [][(Sending /\ Sent.kind = "status")
       => IF Sent.status = 200
          THEN rtResult'.kind = "returned"
          ELSE IF Sent.status \in {400, 401, 403, 404}
          THEN /\ rtResult'.kind = "raised"
               /\ rtResult'.error =
                    <<[code |-> "provider_error",
                       status_code |-> <<Sent.status>>, retryable |-> FALSE]>>
          ELSE IF Sent.status \in retry_config.retryable_codes
          THEN IF attempt < retry_config.max_retries
               THEN rtResult'.kind = "running" /\ attempt' = attempt + 1
               ELSE /\ rtResult'.kind = "raised"
                    /\ rtResult'.error =
                         <<[code |-> "provider_error",
                            status_code |-> <<Sent.status>>,
                            retryable |-> TRUE]>>
          ELSE /\ rtResult'.kind = "raised"
               /\ rtResult'.error =
                    <<[code |-> "provider_error",
                       status_code |-> <<Sent.status>>, retryable |-> FALSE]>>]_vars

\* A 400 was raised as a non-retryable provider_error on the first attempt
\* although 400 is configured as retryable and retries were left.
C13_Witness ==
  /\ rtResult.kind = "raised"
  /\ rtResult.error =
       <<[code |-> "provider_error", status_code |-> <<400>>,
          retryable |-> FALSE]>>
  /\ 400 \in retry_config.retryable_codes
  /\ Len(rtOutcomes) = 1
  /\ retry_config.max_retries > 0

\* C14: every transport-level exception of a request (connect failure,
\* timeout, read or protocol error) is a retryable network_error, retried
\* while attempts remain; an exception that is no transport exception
\* raises a non-retryable network_error.
C14_NetworkErrorsRetried ==
  [][(Sending /\ Sent.kind = "raised")
       => IF Sent.exc \in TransportErrors
          THEN IF attempt < retry_config.max_retries
               THEN /\ rtResult'.kind = "running"
                    /\ last_error' =
                         <<[code |-> "network_error", status_code |-> <<>>,
                            retryable |-> TRUE]>>
               ELSE /\ rtResult'.kind = "raised"
                    /\ rtResult'.error =
                         <<[code |-> "network_error", status_code |-> <<>>,
                            retryable |-> TRUE]>>
          ELSE /\ rtResult'.kind = "raised"
               /\ rtResult'.error =
                    <<[code |-> "network_error", status_code |-> <<>>,
                       retryable |-> FALSE]>>]_vars

\* C15: when all max_retries + 1 attempts failed retryably, the error
\* raised is that of the last attempt: retryable, network_error for a
\* timeout or connect failure, provider_error with the attempt's status for
\* a retryable status.
C15_LastErrorSurfaces ==
  (/\ rtResult.kind = "raised"
   /\ rtOutcomes # <<>>
   /\ Len(rtOutcomes) = retry_config.max_retries + 1
   /\ \A i \in 1 .. Len(rtOutcomes) : RetryableFailure(rtOutcomes[i]))
  => rtResult.error = <<ErrorOf(rtOutcomes[Len(rtOutcomes)])>>

\* The attempts were exhausted with a retryable status first and a timeout
\* last, and the error raised is the network_error.
C15_Witness ==
  /\ rtResult.kind = "raised"
  /\ Len(rtOutcomes) = retry_config.max_retries + 1
  /\ Len(rtOutcomes) >= 2
  /\ \A i \in 1 .. Len(rtOutcomes) : RetryableFailure(rtOutcomes[i])
  /\ rtOutcomes[1].kind = "status"
  /\ rtOutcomes[Len(rtOutcomes)].kind = "raised"
  /\ rtResult.error[1].code = "network_error"

-----------------------------------------------------------------------------
(* Claims about POST /invoke.                                              *)

\* The request in flight passes every check of the middleware.
Authentic ==
  /\ HeadersPresent(req)
  /\ Fresh(req, wall)
  /\ req.signature.ascii
  /\ SignedUnder(req, secret)
  /\ ~Seen(cache, req.nonce, mono)

\* C16: every POST /invoke that returns 200 has appended exactly one entry
\* to the ledger, and a request that gets any other answer, a replay among
\* them, has appended none.
C16_OneLedgerEntryPer200 ==
  [][Serving
       => IF resp'.handler = "invoke" /\ resp'.status = 200
          THEN ledger' = ledger + 1
          ELSE ledger' = ledger]_vars

\* C17: a POST /invoke that sends the provider request records its outcome
\* to the provider's breaker at that time, a failure as record_failure, so
\* that the state file then holds that failure.
C17_InvokeRecordsToBreaker ==
  [][(Serving /\ resp'.handler = "invoke" /\ resp'.providerCalled)
       => /\ cbLast'.at = wall
          /\ cbLast'.op = IF resp'.status = 200 THEN "record_success"
                          ELSE "record_failure"
          /\ resp'.status # 200
               => _read_state(cbFile').last_failure_ts = <<wall>>]_vars

\* The answer to an /invoke request of the model as the request, the
\* secret, the nonce cache, the clocks and the provider's outcome decide
\* it; neither the ledger nor any cost enters.
DecidedWithoutCost(out, outcome) ==
  IF ~(Fresh(req, wall) /\ SignedUnder(req, secret))
  THEN out.status = 403 /\ out.error = "HMAC_INVALID"
  ELSE IF Seen(cache, req.nonce, mono)
  THEN out.status = 403 /\ out.error = "REPLAY_DETECTED"
  ELSE IF req.body = "notjson"
  THEN out.status = 400 /\ out.error = "INVALID_JSON"
  ELSE IF req.body = "noprov"
  THEN out.status = 400 /\ out.error = "MISSING_PROVIDER"
  ELSE IF req.body \in {"notutf8", "notobject", "nomodel"}
  THEN out.status = 500 /\ out.error = "UNHANDLED_EXCEPTION"
  ELSE IF outcome = "200"
  THEN out.status = 200 /\ out.error = ""
  ELSE out.status = 502 /\ out.error = "ChevalError"

\* C18: whatever the ledger holds, the status and error of the answer to an
\* /invoke request are those that the request, the authentication state
\* and the provider's outcome decide; no answer is a refusal for cost.
C18_OutcomeIgnoresCost ==
  [][Serving
       => \E outcome \in ProviderOutcomes :
            DecidedWithoutCost(resp', outcome)]_vars

\* A request was answered 200 while the ledger held an entry.
C18_Witness ==
  /\ pc = "done"
  /\ ledger > 0
  /\ resp.handler = "invoke"
  /\ resp.status = 200
  /\ resp.providerCalled

\* C19: an authenticated POST /invoke whose body is not a valid request
\* (not JSON, not UTF-8, JSON that is no object, no provider, no model or
\* messages) is answered 400 and no provider request is sent.
C19_InvalidBodyIs400 ==
  [][(Serving /\ Authentic /\ req.body # "valid")
       => /\ resp'.status = 400
          /\ ~resp'.providerCalled
          /\ pools' = pools]_vars

-----------------------------------------------------------------------------
(* Specification of the SSE decoder: one stream, delivered in chunks cut   *)
(* at any byte.                                                            *)

SseInit ==
  /\ ConfigInit
  /\ secret = "k1"
  /\ secretPrev = ""
  /\ mono = 0
  /\ wall = 0
  /\ cache = <<>>
  /\ pc = "idle"
  /\ req = NoRequest
  /\ resp = NoResponse
  /\ admitTime = [n \in NonceIds |-> -1]
  /\ admitSince = [n \in NonceIds |-> 0]
  /\ CbInit
  /\ RetryIdle
  /\ CallIdle
  /\ sseStream \in Streams
  /\ ssePos = 0
  /\ sseDec = DecoderStart
  /\ sseDone = FALSE

SseNext == SseChunk \/ SseEnd

SpecSse == SseInit /\ [][SseNext]_vars

\* Every line of the stream ends with a line ending.
WellFormed == sseStream[Len(sseStream)] \in {CR, LF}

\* C20: when a well-formed stream has been decoded, whatever the chunks it
\* was delivered in, the events yielded are those that sse_decode yields
\* for the whole stream delivered as one chunk.
C20_ChunkInvariance ==
  (sseDone /\ WellFormed) => sseDec.events = sse_decode(<<sseStream>>)

-----------------------------------------------------------------------------
(* Specification of the SSE decoder fed whole lines: one stream of field   *)
(* lines, delivered in chunks that end at a line end.                      *)

SseLinesInit ==
  /\ ConfigInit
  /\ secret = "k1"
  /\ secretPrev = ""
  /\ mono = 0
  /\ wall = 0
  /\ cache = <<>>
  /\ pc = "idle"
  /\ req = NoRequest
  /\ resp = NoResponse
  /\ admitTime = [n \in NonceIds |-> -1]
  /\ admitSince = [n \in NonceIds |-> 0]
  /\ CbInit
  /\ RetryIdle
  /\ CallIdle
  /\ sseStream \in LineStreams
  /\ ssePos = 0
  /\ sseDec = DecoderStart
  /\ sseDone = FALSE

SseLinesNext == SseLine \/ SseEnd

SpecSseLines == SseLinesInit /\ [][SseLinesNext]_vars

\* The lines of a byte string in which every line ends with LF.
RECURSIVE SplitLines(_)
SplitLines(bytes) ==
  IF bytes = <<>> THEN <<>>
  ELSE LET k == CHOOSE i \in 1 .. Len(bytes) :
                  bytes[i] = LF /\ \A j \in 1 .. i - 1 : bytes[j] # LF
       IN  <<SubSeq(bytes, 1, k - 1)>> \o SplitLines(SubSeq(bytes, k + 1, Len(bytes)))

\* The lines delivered to the decoder so far.
Delivered == SplitLines(SubSeq(sseStream, 1, ssePos))

\* The greatest index in a .. b of a line of ls that is in set S, 0 if none.
LastIn(ls, a, b, S) ==
  IF \E j \in a .. b : ls[j] \in S
  THEN CHOOSE j \in a .. b : ls[j] \in S /\ \A i \in j + 1 .. b : ls[i] \notin S
  ELSE 0

\* The value of a field line of FieldLines: what follows its colon.
ValueOf(line) ==
  IF line = LineData THEN <<"a">>
  ELSE IF line = LineEvent THEN <<"e">>
  ELSE IF line = LineId1 THEN <<"1">>
  ELSE <<>>

\* The empty lines of ls before which a data field came since the empty
\* line before: the lines that dispatch an event.
Dispatches(ls) ==
  {k \in 1 .. Len(ls) :
     /\ ls[k] = <<>>
     /\ LastIn(ls, LastIn(ls, 1, k - 1, {<<>>}) + 1, k - 1, {LineData}) # 0}

\* The most recent id without a NUL before line k, empty if none.
ExpectedId(ls, k) ==
  LET j == LastIn(ls, 1, k - 1, {LineId1})
  IN  IF j = 0 THEN <<>> ELSE ValueOf(ls[j])

\* The most recent retry before line k.
ExpectedRetry(ls, k) ==
  IF LastIn(ls, 1, k - 1, {LineRetry}) = 0 THEN <<>> ELSE <<5>>

\* The event name set since the empty line before line k, "message" if
\* none.
ExpectedType(ls, k) ==
  LET j == LastIn(ls, LastIn(ls, 1, k - 1, {<<>>}) + 1, k - 1, {LineEvent})
  IN  IF j = 0 THEN TextMessage ELSE ValueOf(ls[j])

\* C21: while a stream is delivered in whole lines, the events yielded are
\* one for each empty line that follows a data field accumulated since the
\* empty line before; each carries the event name set since the empty line
\* before ("message" if none, so that a name never carries over), the most
\* recent id without a NUL seen before it and the most recent retry; and
\* right after an empty line the decoder's event_type is "message" and its
\* data is empty, while its id and retry are the most recent ones.
C21_DispatchOnEmptyLine ==
  ~sseDone =>
    LET ls == Delivered
        D == Dispatches(ls)
        end == Len(ls) + 1
    IN  /\ Len(sseDec.events) = Cardinality(D)
        /\ \A k \in D :
             LET ev == sseDec.events[Cardinality({j \in D : j <= k})]
             IN  /\ ev.event_type = ExpectedType(ls, k)
                 /\ ev.id = ExpectedId(ls, k)
                 /\ ev.retry = ExpectedRetry(ls, k)
        /\ (ls # <<>> /\ ls[Len(ls)] = <<>>) =>
             /\ sseDec.event_type = TextMessage
             /\ sseDec.data_lines = <<>>
        /\ sseDec.event_id = ExpectedId(ls, end)
        /\ sseDec.retry = ExpectedRetry(ls, end)

\* Two events have been dispatched, the first one named and the second one
\* not.
C21_Witness ==
  /\ ~sseDone
  /\ Len(sseDec.events) = 2
  /\ sseDec.events[1].event_type = <<"e">>
  /\ sseDec.events[2].event_type = TextMessage
  /\ Delivered[Len(Delivered)] = <<>>

-----------------------------------------------------------------------------
(* Specification of response normalisation: one provider response is      *)
(* normalised.                                                             *)

\* The state of everything but the library call.
RestInit ==
  /\ ConfigInit
  /\ secret = "k1"
  /\ secretPrev = ""
  /\ mono = 0
  /\ wall = 0
  /\ cache = <<>>
  /\ pc = "idle"
  /\ req = NoRequest
  /\ resp = NoResponse
  /\ admitTime = [n \in NonceIds |-> -1]
  /\ admitSince = [n \in NonceIds |-> 0]
  /\ CbInit
  /\ RetryIdle
  /\ SseIdle

NormalizeInit ==
  /\ RestInit
  /\ call \in {<<[fn |-> "normalize_response", raw |-> r, provider_type |-> t]>> :
                 r \in RawResponses, t \in ProviderTypes}
  /\ callRet = <<>>

NormalizeNext == Normalize

SpecNormalize == NormalizeInit /\ [][NormalizeNext]_vars

\* An entry of tool_calls that is kept: a record whose function has a name.
ValidEntry(entry) ==
  /\ entry.t = "obj"
  /\ entry.function.t = "obj"
  /\ entry.function.name.t = "str"
  /\ entry.function.name.s # ""

\* C22: a normalised response never has a blank thinking nor an empty
\* tool_calls list: thinking is null unless the provider type is
\* openai-compatible and reasoning_content is a non-blank string, and
\* tool_calls is null when the response's tool_calls array holds no entry
\* that is a record with a function name.
C22_AbsenceIsNull ==
  (callRet # <<>> /\ call[1].raw.choices # <<>>) =>
    LET message == call[1].raw.choices[1].message
        out == callRet[1]
    IN  /\ out.kind = "returned" =>
             /\ out.value.thinking \notin {<<"">>, <<"  ">>}
             /\ out.value.thinking # <<>> =>
                  /\ call[1].provider_type = "openai-compatible"
                  /\ message.reasoning_content.t = "str"
                  /\ message.reasoning_content.s \notin {"", "  "}
             /\ out.value.tool_calls # <<<<>>>>
        /\ (/\ message.tool_calls.t = "arr"
            /\ \A i \in 1 .. Len(message.tool_calls.items) :
                 ~ValidEntry(message.tool_calls.items[i])) =>
             /\ out.kind = "returned"
             /\ out.value.tool_calls = <<>>

-----------------------------------------------------------------------------
(* Specification of cost enrichment: one normalised result is enriched.    *)

EnrichInit ==
  /\ RestInit
  /\ call \in {<<[fn |-> "enrich_response_with_cost", result |-> r,
                  provider |-> pm[1], model |-> pm[2]]>> :
                 r \in Results,
                 pm \in {<<"openai", "gpt-4o">>, <<"unknown", "unknown">>}}
  /\ callRet = <<>>

EnrichNext == Enrich

SpecEnrich == EnrichInit /\ [][EnrichNext]_vars

\* C23: a call of enrich_response_with_cost leaves the result and the
\* usage record it was given as they were, returns a result whatever the
\* token counts, and adds no cost to it when no pricing resolves.
C23_EnrichIsPureAndTotal ==
  [][(call # <<>> /\ call[1].fn = "enrich_response_with_cost") =>
       /\ call'[1].result = call[1].result
       /\ callRet'[1].kind = "returned"
       /\ (find_default_pricing(call[1].provider, call[1].model) = <<>>
             /\ call[1].result.usage # <<>>) =>
            callRet'[1].value.usage[1].cost = <<>>]_vars

-----------------------------------------------------------------------------
(* Claims about POST /invoke/stream.                                       *)

-----------------------------------------------------------------------------
(* Specification of the one-shot mode: one run.                            *)

OneShotInit ==
  /\ RestInit
  /\ call \in {<<r>> : r \in OneShotRuns}
  /\ callRet = <<>>

OneShotNext == RunMachineMode

SpecOneShot == OneShotInit /\ [][OneShotNext]_vars

\* The exit code of the outcome class of a run, the checks taken in the
\* order schema version, request parse, HMAC, provider config and required
\* fields, provider call.
ExitClass(r) ==
  IF r.schema_version # 1 THEN 4
  ELSE IF r.file \in {"missing", "unreadable", "notjson", "notutf8", "notobject"} THEN 4
  ELSE IF r.hmac_secret = "" THEN 3
  ELSE IF ~(r.issued_at = "fresh" /\ r.signed_with \in {r.hmac_secret, r.hmac_secret_prev} \ {""})
  THEN 3
  ELSE IF r.file \in {"noprov", "nomodel"} THEN 4
  ELSE IF r.outcome = "network_error" THEN 2
  ELSE IF r.outcome \in {"provider_error", "nonjson"} THEN 1
  ELSE 0

\* C25: a one-shot run ends with the exit code of its outcome class (0
\* only after the result was printed, 1 provider error, 2 network error, 3
\* secret unset or signature or timestamp invalid, 4 invalid request: bad
\* schema version, unreadable or unparseable file, missing provider config
\* or required field), and sends no provider request unless the HMAC
\* verification passed.
C25_ExitCodeOfOutcomeClass ==
  callRet # <<>> =>
    /\ callRet[1].code = ExitClass(call[1])
    /\ callRet[1].code = 0 => callRet[1].printed = "result"
    /\ callRet[1].sent => callRet[1].verified

-----------------------------------------------------------------------------
(* Claims about the capacity of the nonce cache.                           *)

\* C26: the nonce cache never holds more than max_size entries; an
\* admission leaves the entries that were held, without a run of the
\* oldest ones, followed by the entry of the nonce just admitted, which is
\* therefore retained.
C26_CacheBounded ==
  /\ [](Len(cache) <= NonceCacheMaxSize)
  /\ [][(Serving /\ resp'.admitted) =>
          /\ cache' # <<>>
          /\ cache'[Len(cache')] = Entry(req.nonce, mono + Ttl)
          /\ \E k \in 0 .. Len(cache) :
               SubSeq(cache', 1, Len(cache') - 1) = SubSeq(cache, k + 1, Len(cache))]_vars

\* A nonce has just been admitted into a full cache, and a nonce admitted
\* earlier whose deadline has not passed is no longer held.
C26_Witness ==
  /\ pc = "done"
  /\ resp.admitted
  /\ Len(cache) = NonceCacheMaxSize
  /\ \E n \in NonceIds :
       /\ admitTime[n] >= 0
       /\ mono <= admitTime[n] + Ttl
       /\ n \notin CacheNonces(cache)

-----------------------------------------------------------------------------
(* Specification of concurrent record_failure calls on one provider's      *)
(* breaker.  Each caller runs record_failure in two steps: it reads the    *)
(* state file and the clock without any lock, then it computes the new     *)
(* state from what it read and rewrites the file inside _write_state,      *)
(* which holds the exclusive lock for the truncate-and-rewrite only.  The  *)
(* callers' steps interleave freely.                                       *)

\* The number of concurrent callers.
NumCallers == 2

\* A caller's locals: where it is, the state it read, its now, its result.
Caller(at, state, now, ret) ==
  [fn |-> "record_failure", at |-> at, state |-> state, now |-> now,
   ret |-> ret]

\* state = _read_state(provider); now = time.time(): no lock is held.
RaceRead(i) ==
  /\ call[i].at = "start"
  /\ call' = [call EXCEPT ![i] = Caller("read", _read_state(cbFile), wall, "")]
  /\ UNCHANGED <<authVars, wall, cbVars, retryVars, sseVars, callRet>>

\* Mutant: the caller reads the file again under the lock it writes under.
RaceWrite_locked(i) ==
  /\ call[i].at = "read"
  /\ LET r == record_failure(cbFile, call[i].now)
     IN  /\ cbFile' = r.file
         /\ call' = [call EXCEPT ![i] =
                       Caller("done", call[i].state, call[i].now, r.ret)]
  /\ UNCHANGED <<authVars, wall, cbLast, cbStreak, cbSince, cbProbe,
                 retryVars, sseVars, callRet>>

\* The rest of record_failure: the new state is computed from the state the
\* caller read, and _write_state replaces the file with it under the lock.
RaceWrite(i) ==
  /\ call[i].at = "read"
  /\ LET r == record_failure(_write_state(call[i].state), call[i].now)
     IN  /\ cbFile' = r.file
         /\ call' = [call EXCEPT ![i] =
                       Caller("done", call[i].state, call[i].now, r.ret)]
  /\ UNCHANGED <<authVars, wall, cbLast, cbStreak, cbSince, cbProbe,
                 retryVars, sseVars, callRet>>

\* The breaker is CLOSED with some failures counted, the latest of them at
\* second 1, or has no file yet; cbStreak keeps that count and that second.
RaceInit ==
  /\ ConfigInit
  /\ secret = "k1"
  /\ secretPrev = ""
  /\ mono = 0
  /\ wall \in 1 .. 2
  /\ cache = <<>>
  /\ pc = "idle"
  /\ req = NoRequest
  /\ resp = NoResponse
  /\ admitTime = [n \in NonceIds |-> -1]
  /\ admitSince = [n \in NonceIds |-> 0]
  /\ \E n \in 0 .. FailureThreshold - 1 :
       /\ cbFile \in
            {_write_state([_default_state EXCEPT
                             !.failure_count = n,
                             !.last_failure_ts = IF n = 0 THEN <<>> ELSE <<1>>])}
            \cup (IF n = 0 THEN {<<>>} ELSE {})
       /\ cbStreak = [n |-> n, start |-> 1, inWindow |-> TRUE]
  /\ cbLast = [op |-> "none", ret |-> "", at |-> 0, pre |-> ""]
  /\ cbSince = 0
  /\ cbProbe = NoProbe
  /\ RetryIdle
  /\ SseIdle
  /\ call = [i \in 1 .. NumCallers |-> Caller("start", _default_state, 0, "")]
  /\ callRet = <<>>

\* A second passes, until the count window of the first failure has passed.
RaceTick ==
  /\ wall < CountWindow + 2
  /\ wall' = wall + 1
  /\ UNCHANGED <<authVars, cbVars, otherVars>>

RaceNext ==
  \/ \E i \in 1 .. NumCallers : RaceRead(i)
  \/ \E i \in 1 .. NumCallers : RaceWrite(i)
  \/ RaceTick

SpecRace == RaceInit /\ [][RaceNext]_vars

\* Every caller has returned, and the last of them read the clock inside the
\* count window of the failure counted before the calls.
RaceDoneInWindow ==
  /\ \A i \in 1 .. NumCallers : call[i].at = "done"
  /\ \A i \in 1 .. NumCallers : call[i].now - cbStreak.start <= CountWindow

-----------------------------------------------------------------------------
(* Claims about probing and the count window of the circuit breaker.       *)

\* C28: bounded probing.  While every check_state that returned HALF_OPEN
\* has been followed by increment_probe before the next check_state, at most
\* half_open_max_probes of them have returned HALF_OPEN since the latest
\* record_success or record_failure, and once that many have and the last is
\* counted, a check_state at any later time returns OPEN; and increment_probe
\* leaves the file as it is, or absent, when the state is not HALF_OPEN.
C28_BoundedProbing ==
  /\ [](cbProbe.kept => cbProbe.seen <= HalfOpenMaxProbes)
  /\ [](cbProbe.kept /\ ~cbProbe.owed /\ cbProbe.seen = HalfOpenMaxProbes =>
          \A now \in wall .. CbMaxTime : check_state(cbFile, now).ret = OPEN)
  /\ [][cbLast'.op = "increment_probe" /\ cbLast'.pre # HALF_OPEN =>
          cbFile' = cbFile]_vars

\* A request has found the breaker HALF_OPEN and counted its probe, and a
\* later check_state returned OPEN.
C28_Witness ==
  /\ cbProbe.kept
  /\ cbProbe.seen = HalfOpenMaxProbes
  /\ cbLast.op = "check_state"
  /\ cbLast.pre = HALF_OPEN
  /\ cbLast.ret = OPEN

-----------------------------------------------------------------------------
(* Specification of a breaker call on a state file of any content.         *)

BreakerCallInit ==
  /\ RestInit
  /\ call \in {<<[fn |-> f, content |-> c]>> :
                 f \in BreakerCalls, c \in FileContents}
  /\ callRet = <<>>

BreakerCallNext == BreakerCall \/ CbTick

SpecBreakerCall == BreakerCallInit /\ [][BreakerCallNext]_vars

\* The file is missing, empty, partially written, unparseable, not a JSON
\* object, names another provider or lacks a state field.
NoStateIn(content) ==
  \/ content.kind # "json"
  \/ ~IsDict(content.value)
  \/ content.value.provider # <<"p">>
  \/ ~content.value.has_state

\* C30: a call on a file that holds no state of this provider does not raise
\* and returns what it returns when there is no file: it has treated the
\* state as the default CLOSED state.
C30_ReaderTolerates ==
  call # <<>> /\ callRet # <<>> /\ NoStateIn(call[1].content) =>
    /\ callRet[1].kind = "returned"
    /\ callRet[1].value = breaker_call(call[1].fn, <<>>, wall).ret

-----------------------------------------------------------------------------
(* Specification of concurrent requests: two signed POST /invoke requests  *)
(* arrive at any times and run interleaved at their awaits.                *)

ConcInit ==
  /\ ConfigInit
  /\ secret = "k1"
  /\ secretPrev = ""
  /\ mono = 0
  /\ wall = 1
  /\ cache = <<>>
  /\ pc = "idle"
  /\ req = NoRequest
  /\ resp = NoResponse
  /\ admitTime = [n \in NonceIds |-> -1]
  /\ admitSince = [n \in NonceIds |-> 0]
  /\ CbInit
  /\ RetryIdle
  /\ SseIdle
  /\ call = [i \in Tasks |-> NoTask]
  /\ callRet = <<>>

ConcNext ==
  \/ \E i \in Tasks : ConcArrive(i)
  \/ \E i \in Tasks : ConcVerify(i)
  \/ \E i \in Tasks : ConcHandle(i)
  \/ \E i \in Tasks : ConcReturn(i)
  \/ ConcTick

SpecConc == ConcInit /\ [][ConcNext]_vars

\* Both requests carry the same nonce, were validly signed and have had
\* their nonce checked.
SameNonceChecked(i, j) ==
  /\ i # j
  /\ call[i].req.nonce = call[j].req.nonce
  /\ \A k \in {i, j} :
       /\ call[k].checked >= 0
       /\ call[k].resp.admitted \/ call[k].resp.error = "REPLAY_DETECTED"

ExactlyOnePasses(i, j) ==
  \/ call[i].resp.admitted /\ call[j].resp.error = "REPLAY_DETECTED"
  \/ call[j].resp.admitted /\ call[i].resp.error = "REPLAY_DETECTED"

ClientsInUse == pools \cup {call[i].client[1] : i \in {k \in Tasks : call[k].client # <<>>}}

\* C32: at most one client is ever created per provider name, every request
\* naming the provider is sent through it, and it keeps the base URL of the
\* request that created it: clients of one name are one object, a request
\* holds the client kept under its provider's name, some request that holds
\* it named its base URL, and a client once kept is kept as it is.
C32_OneClientPerProvider ==
  /\ [](\A c, d \in ClientsInUse : c.name = d.name => c = d)
  /\ [](\A i \in Tasks : call[i].client # <<>> =>
          /\ call[i].client[1] \in pools
          /\ call[i].client[1].name = ProviderOf(call[i].req.body))
  /\ [](\A c \in pools : \E i \in Tasks :
          /\ call[i].client = <<c>>
          /\ BaseUrlOf(call[i].req.body) = c.base_url)
  /\ [][pools \subseteq pools']_vars

\* Two requests name provider p1 with different base URLs; both are being
\* sent through the one client, which is bound to the base URL of the first.
C32_Witness ==
  /\ call[1].at = "provider"
  /\ call[2].at = "provider"
  /\ call[1].req.body = "valid"
  /\ call[2].req.body = "valid_u2"
  /\ call[1].client = call[2].client
  /\ call[1].client[1].base_url = "u1"
  /\ Cardinality(pools) = 1

-----------------------------------------------------------------------------
(* Specification of the backoff: the sleeps of one call of a retry engine  *)
(* whose every attempt fails in a retryable way.                           *)

BackoffInit ==
  /\ RestInit
  /\ call \in {<<[fn |-> "backoff", config |-> c, attempt |-> 0,
                  sleeps |-> <<>>]>> : c \in BackoffConfigs}
  /\ callRet = <<>>

BackoffNext == Backoff

SpecBackoff == BackoffInit /\ [][BackoffNext]_vars

\* C33: no sleep precedes attempt 0; the sleep before attempt k > 0 has the
\* un-jittered delay min(base_delay * 2^(k-1), max_delay) and lies within
\* jitter_percent of it on either side, or is 0 where that is negative; the
\* un-jittered delays do not decrease from one attempt to the next, and no
\* sleep exceeds max_delay * (1 + jitter_percent).
C33_Backoff ==
  call # <<>> /\ call[1].fn = "backoff" =>
    LET c == call[1].config
        sleeps == call[1].sleeps
    IN  /\ Len(sleeps) = IF call[1].attempt = 0 THEN 0 ELSE call[1].attempt - 1
        /\ \A x \in 1 .. Len(sleeps) :
             LET s == sleeps[x]
                 lo == s.delay * (100 - c.jitter_percent) * JitterSteps
                 hi == s.delay * (100 + c.jitter_percent) * JitterSteps
             IN  /\ s.attempt = x
                 /\ s.delay = Min(c.base_delay * Pow2(x - 1), c.max_delay)
                 /\ s.actual_delay >= 0
                 /\ s.actual_delay <= hi
                 /\ s.actual_delay >= lo \/ s.actual_delay = 0
                 /\ s.actual_delay <=
                      c.max_delay * (100 + c.jitter_percent) * JitterSteps
                 /\ x > 1 => sleeps[x - 1].delay <= s.delay

\* A call has slept before attempts 1, 2 and 3: the delay doubled, then was
\* capped by max_delay, and a jitter below -100 % was clamped to 0.
C33_Witness ==
  /\ call # <<>>
  /\ call[1].fn = "backoff"
  /\ Len(call[1].sleeps) = 3
  /\ call[1].sleeps[1].delay = 2
  /\ call[1].sleeps[2].delay = 4
  /\ call[1].sleeps[3].delay = 5
  /\ call[1].sleeps[3].actual_delay = 0
  /\ call[1].sleeps[2].actual_delay > 4 * SleepScale

-----------------------------------------------------------------------------
(* Specification of normalisation over responses of any shape.             *)

NormalizeJsonInit ==
  /\ RestInit
  /\ call \in {<<[fn |-> "normalize_response_json", raw |-> r, provider_type |-> t]>> :
                 r \in JsonResponses, t \in ProviderTypes}
  /\ callRet = <<>>

NormalizeJsonNext == NormalizeJson

SpecNormalizeJson == NormalizeJsonInit /\ [][NormalizeJsonNext]_vars

\* C34: normalize_response returns a result and never raises, whatever is
\* missing, null or of the wrong type among choices, choices[0], message,
\* content, tool_calls, a tool-call entry, usage and the token counts; the
\* result's content is a string and its three usage counts are integers.
C34_NeverRaises ==
  callRet # <<>> =>
    /\ callRet[1].kind = "returned"
    /\ callRet[1].value.content.t = "str"
    /\ \A k \in {"prompt_tokens", "completion_tokens", "reasoning_tokens"} :
         callRet[1].value.usage[k].t = "int"

\* The malformed shapes that are normalised as the claim says: choices
\* missing, null or empty, content missing or null, usage missing, null or
\* no object, and a token count missing or null.
C34_Tolerated ==
  (/\ callRet # <<>>
   /\ LET raw == call[1].raw
      IN  /\ \/ ~TruthyJson(raw.choices)
             \/ /\ raw.choices.t = "arr"
                /\ IsDict(raw.choices.items[1])
                /\ raw.choices.items[1].message \in {Absent} \cup Messages
                /\ raw.choices.items[1].message \in Messages =>
                     /\ raw.choices.items[1].message.content.t \in {"absent", "null", "str"}
                     /\ raw.choices.items[1].message.tool_calls \in {Absent, Null, Arr(<<>>)}
          /\ IsDict(raw.usage) =>
               raw.usage.prompt_tokens.t \in {"absent", "null", "int"}) =>
    /\ callRet[1].kind = "returned"
    /\ callRet[1].value.content.t = "str"
    /\ \A k \in {"prompt_tokens", "completion_tokens", "reasoning_tokens"} :
         callRet[1].value.usage[k].t = "int"

-----------------------------------------------------------------------------
(* Specification of request building: one canonical request is built.      *)

BuildInit ==
  /\ RestInit
  /\ call \in {<<[fn |-> "build_openai_request", request |-> r]>> :
                 r \in CanonicalRequests}
  /\ callRet = <<>>

BuildNext == Build

SpecBuild == BuildInit /\ [][BuildNext]_vars

\* C35: build emits one wire message per canonical message, in the same
\* order; a message whose content is absent or null is emitted without a
\* content key only when its role is assistant and it has tool calls, and
\* with content "" in every other case; tool_choice is copied whenever it
\* is set.
C35_MessageTranslation ==
  callRet # <<>> =>
    LET request == call[1].request
        body == callRet[1]
    IN  /\ Len(body.messages) = Len(request.messages)
        /\ \A i \in 1 .. Len(request.messages) :
             LET msg == request.messages[i]
                 converted == body.messages[i]
             IN  /\ converted.role = msg.role
                 /\ msg.content \in {Absent, Null} =>
                      IF msg.role = "assistant" /\ TruthyJson(msg.tool_calls)
                      THEN converted.content = Absent
                      ELSE converted.content = Str("")
        /\ TruthyJson(request.tool_choice) =>
             body.tool_choice = request.tool_choice

\* What build does: the order is kept, content that is set is copied, and
\* content that is absent or null is dropped for every assistant message,
\* with or without tool calls; tool_choice is copied when tools are.
C35_AsBuilt ==
  callRet # <<>> =>
    LET request == call[1].request
        body == callRet[1]
    IN  /\ Len(body.messages) = Len(request.messages)
        /\ \A i \in 1 .. Len(request.messages) :
             LET msg == request.messages[i]
                 converted == body.messages[i]
             IN  /\ converted.role = msg.role
                 /\ msg.content \notin {Absent, Null} =>
                      converted.content = msg.content
                 /\ msg.content \in {Absent, Null} =>
                      converted.content =
                        IF msg.role = "assistant" THEN Absent ELSE Str("")
        /\ body.tool_choice # Absent =>
             /\ body.tool_choice = request.tool_choice
             /\ body.tools = request.tools

-----------------------------------------------------------------------------
(* Specification of the two retry engines run on the same provider         *)
(* outcomes under the same configuration.                                  *)

EquivInit ==
  /\ RestInit
  /\ call \in {<<[fn |-> "invoke_with_retry", retry_config |-> c,
                  outcomes |-> <<>>, blocking |-> EngineStart,
                  async |-> EngineStart]>> : c \in EquivConfigs}
  /\ callRet = <<>>

EquivNext ==
  BlockingAttempt \/ BlockingExhausted \/ AsyncAttempt \/ AsyncExhausted

SpecEquiv == EquivInit /\ [][EquivNext]_vars

\* C36: under the same retry configuration and the same sequence of
\* provider outcomes, invoke_with_retry and invoke_with_retry_async make
\* the same number of attempts with the same un-jittered delays and end
\* with the same result: the same response, or an error with the same
\* code, status_code and retryable flag.  After equally many requests the
\* two engines are in the same state altogether.
C36_EnginesEquivalent ==
  LET b == call[1].blocking
      a == call[1].async
  IN  /\ (b.result.kind # "running" /\ a.result.kind # "running") =>
           /\ b.posts = a.posts
           /\ b.delays = a.delays
           /\ b.result = a.result
           /\ b.response = a.response
      /\ (b.posts = a.posts /\ b.result.kind = a.result.kind) => b = a
      /\ b.posts = a.posts => b.delays = a.delays

\* Both engines have ended after retrying a refused connection and a
\* retryable status, each after two delays.
C36_Witness ==
  /\ call[1].blocking.result.kind = "raised"
  /\ call[1].async.result.kind = "raised"
  /\ Len(call[1].outcomes) = 3
  /\ call[1].outcomes[1] = RaisedOutcome("ConnectError")
  /\ call[1].outcomes[2] = StatusOutcome(503)
  /\ Len(call[1].blocking.delays) = 2
  /\ call[1].blocking.delays[1] < call[1].blocking.delays[2]
  /\ call[1].async.posts = 3

-----------------------------------------------------------------------------
(* Claims about the persisted state of the breaker.                        *)

\* The edges the state of the breaker changes along.
BreakerEdges ==
  {<<CLOSED, OPEN>>, <<OPEN, HALF_OPEN>>, <<HALF_OPEN, CLOSED>>,
   <<HALF_OPEN, OPEN>>}

\* C37: under any sequence of non-overlapping check_state, record_failure,
\* record_success and increment_probe calls with a fixed configuration, the
\* persisted state satisfies: OPEN implies opened_at is set, CLOSED implies
\* failure_count < failure_threshold, half_open_probes > 0 implies
\* HALF_OPEN; and the state changes only along the edges CLOSED to OPEN,
\* OPEN to HALF_OPEN, HALF_OPEN to CLOSED and HALF_OPEN to OPEN.
C37_StateInvariant ==
  /\ [](/\ Persisted.state = OPEN => Persisted.opened_at # <<>>
        /\ Persisted.state = CLOSED => Persisted.failure_count < FailureThreshold
        /\ Persisted.half_open_probes > 0 => Persisted.state = HALF_OPEN)
  /\ [][_read_state(cbFile').state # _read_state(cbFile).state =>
          <<_read_state(cbFile).state, _read_state(cbFile').state>>
            \in BreakerEdges]_vars

\* A probe was counted and then failed: the breaker, which had opened and
\* become half-open, is open again with a later opened_at.
C37_Witness ==
  /\ cbLast.op = "record_failure"
  /\ cbLast.pre = HALF_OPEN
  /\ Persisted.state = OPEN
  /\ Persisted.opened_at # <<>>
  /\ Persisted.opened_at[1] >= ResetTimeout
  /\ Persisted.failure_count >= FailureThreshold

-----------------------------------------------------------------------------
(* Specification of concurrent calls of any of the breaker's operations on *)
(* one provider.  Each caller runs its operation in two steps: it reads    *)
(* the state file without any lock; later it reads the clock where the     *)
(* operation does, computes the new state from what it read, and rewrites  *)
(* the file inside _write_state if the operation writes on that path.      *)

BreakerOps ==
  {"check_state", "record_failure", "record_success", "increment_probe"}

\* What the operation fn returns and leaves when it runs alone on file.
breaker_op(fn, file, now) ==
  CASE fn = "check_state" -> check_state(file, now)
    [] fn = "record_failure" -> record_failure(file, now)
    [] fn = "record_success" -> record_success(file)
    [] OTHER -> increment_probe(file)

\* Whether the operation reaches a _write_state from the state it read.
Writes(fn, file, now) ==
  LET state == _read_state(file)
  IN  CASE fn = "check_state" ->
             /\ state.state = OPEN
             /\ Truthy(state.opened_at)
             /\ now - state.opened_at[1] >= ResetTimeout
        [] fn = "record_failure" -> TRUE
        [] fn = "record_success" ->
             \/ state.state = HALF_OPEN
             \/ state.state = CLOSED /\ state.failure_count > 0
        [] OTHER -> state.state = HALF_OPEN

\* A caller's locals: its operation, where it is, the file it read and when.
StaleCaller(fn, at, read, since) ==
  [fn |-> fn, at |-> at, read |-> read, since |-> since]

\* state = _read_state(provider): no lock is held.
StaleRead(i) ==
  /\ call[i].at = "start"
  /\ call' = [call EXCEPT ![i] = StaleCaller(call[i].fn, "read", cbFile, wall)]
  /\ UNCHANGED <<authVars, wall, cbVars, retryVars, sseVars, callRet>>

\* The rest of the operation: time.time() is read at some instant since
\* the read of the file, and the state computed from the file that was
\* read replaces the file, if the operation writes.
StaleWrite(i) ==
  /\ call[i].at = "read"
  /\ \E now \in call[i].since .. wall :
       cbFile' = IF Writes(call[i].fn, call[i].read, now)
                 THEN breaker_op(call[i].fn, call[i].read, now).file
                 ELSE cbFile
  /\ call' = [call EXCEPT ![i].at = "done"]
  /\ UNCHANGED <<authVars, wall, cbLast, cbStreak, cbSince, cbProbe,
                 retryVars, sseVars, callRet>>

\* A second passes, until a breaker opened at second 1 has timed out.
StaleTick ==
  /\ wall < ResetTimeout + 2
  /\ wall' = wall + 1
  /\ UNCHANGED <<authVars, cbVars, otherVars>>

\* The files the calls start from: none, CLOSED with one failure counted
\* at second 1, OPEN since second 1, and HALF_OPEN with the probes counted.
StaleFiles ==
  {<<>>,
   _write_state([_default_state EXCEPT !.failure_count = 1,
                                       !.last_failure_ts = <<1>>]),
   _write_state([state |-> OPEN, failure_count |-> FailureThreshold,
                 last_failure_ts |-> <<1>>, opened_at |-> <<1>>,
                 half_open_probes |-> 0])}
  \cup {_write_state([state |-> HALF_OPEN, failure_count |-> FailureThreshold,
                      last_failure_ts |-> <<1>>, opened_at |-> <<1>>,
                      half_open_probes |-> p]) : p \in 0 .. HalfOpenMaxProbes}

StaleInit ==
  /\ ConfigInit
  /\ secret = "k1"
  /\ secretPrev = ""
  /\ mono = 0
  /\ wall = 1
  /\ cache = <<>>
  /\ pc = "idle"
  /\ req = NoRequest
  /\ resp = NoResponse
  /\ admitTime = [n \in NonceIds |-> -1]
  /\ admitSince = [n \in NonceIds |-> 0]
  /\ cbFile \in StaleFiles
  /\ cbLast = [op |-> "none", ret |-> "", at |-> 0, pre |-> ""]
  /\ cbStreak = [n |-> 0, start |-> 0, inWindow |-> TRUE]
  /\ cbSince = 0
  /\ cbProbe = NoProbe
  /\ RetryIdle
  /\ SseIdle
  /\ call \in [1 .. NumCallers -> {StaleCaller(fn, "start", <<>>, 0) : fn \in BreakerOps}]
  /\ callRet = <<>>

StaleNext ==
  \/ \E i \in 1 .. NumCallers : StaleRead(i)
  \/ \E i \in 1 .. NumCallers : StaleWrite(i)
  \/ StaleTick

SpecStale == StaleInit /\ [][StaleNext]_vars

\* C38: whatever the interleaving of the unlocked reads and the locked
\* writes of concurrent operations, an OPEN breaker is never put back to
\* CLOSED without a successful probe: the persisted state never goes from
\* OPEN to CLOSED, and OPEN or HALF_OPEN is replaced by CLOSED only by the
\* record_success of a caller that read HALF_OPEN, never by a state
\* computed from an older read.
C38_NoStaleClose ==
  [][(_read_state(cbFile).state \in {OPEN, HALF_OPEN}
      /\ _read_state(cbFile').state = CLOSED) =>
       /\ _read_state(cbFile).state = HALF_OPEN
       /\ \E i \in 1 .. NumCallers :
            /\ call[i].at = "read"
            /\ call'[i].at = "done"
            /\ call[i].fn = "record_success"
            /\ _read_state(call[i].read).state = HALF_OPEN]_vars

\* With the operations one at a time (each caller's write follows its own
\* read with no other write between), OPEN and HALF_OPEN are left for
\* CLOSED only from HALF_OPEN by record_success.
C38_FreshWrites ==
  [][(/\ _read_state(cbFile).state \in {OPEN, HALF_OPEN}
      /\ _read_state(cbFile').state = CLOSED
      /\ \A i \in 1 .. NumCallers :
           (call[i].at = "read" /\ call'[i].at = "done") =>
             call[i].read = cbFile) =>
       /\ _read_state(cbFile).state = HALF_OPEN
       /\ \E i \in 1 .. NumCallers :
            /\ call[i].at = "read"
            /\ call'[i].at = "done"
            /\ call[i].fn = "record_success"]_vars

-----------------------------------------------------------------------------
(* Specification of the breaker once the failures have stopped.  The calls *)
(* of one provider's breaker are made one at a time in any order, as in    *)
(* SpecCb, until the last record_failure has been made; from then on time  *)
(* keeps advancing and check_state keeps being called, increment_probe and *)
(* record_success may be called or not, and record_failure is not.  Time   *)
(* is followed until every breaker opened before has timed out.            *)

\* What the observer knows: whether the last record_failure has been made.
Watch(quiet) == [fn |-> "watch", quiet |-> quiet]

\* record_failure, while failures still occur.
LiveRecordFailure ==
  /\ ~call[1].quiet
  /\ RecordFailure

\* The last record_failure has been made; the calls made so far are
\* forgotten.
Quiesce ==
  /\ ~call[1].quiet
  /\ call' = <<Watch(TRUE)>>
  /\ cbLast' = [op |-> "none", ret |-> "", at |-> 0, pre |-> ""]
  /\ UNCHANGED <<authVars, wall, cbFile, cbStreak, cbSince, cbProbe,
                 retryVars, sseVars, callRet>>

\* A second passes on the wall clock.
LiveTick ==
  /\ wall < (IF call[1].quiet THEN CbMaxTime + ResetTimeout ELSE CbMaxTime)
  /\ wall' = wall + 1
  /\ UNCHANGED <<authVars, cbVars, otherVars>>

LiveInit ==
  /\ ConfigInit
  /\ secret = "k1"
  /\ secretPrev = ""
  /\ mono = 0
  /\ wall = 0
  /\ cache = <<>>
  /\ pc = "idle"
  /\ req = NoRequest
  /\ resp = NoResponse
  /\ admitTime = [n \in NonceIds |-> -1]
  /\ admitSince = [n \in NonceIds |-> 0]
  /\ CbInit
  /\ RetryIdle
  /\ SseIdle
  /\ call = <<Watch(FALSE)>>
  /\ callRet = <<>>

LiveNext ==
  \/ CheckState
  \/ LiveRecordFailure
  \/ RecordSuccess
  \/ IncrementProbe
  \/ Quiesce
  \/ LiveTick

\* Time keeps advancing and check_state keeps being called.
SpecCbLive ==
  LiveInit /\ [][LiveNext]_vars /\ WF_vars(CheckState) /\ WF_vars(LiveTick)

\* A check_state made since the last record_failure has let a request
\* through.
LetThrough ==
  /\ call[1].quiet
  /\ cbLast.op = "check_state"
  /\ cbLast.ret \in {HALF_OPEN, CLOSED}

\* C39: the breaker never blocks a provider forever: from every reachable
\* state, if time keeps advancing and check_state keeps being called while
\* no further record_failure occurs, some later check_state returns
\* HALF_OPEN or CLOSED, also when the half-open probes are exhausted and
\* the probing request never reports success or failure.
C39_NeverBlockedForever == call[1].quiet ~> LetThrough

\* The states the breaker stays blocked in: HALF_OPEN with the probes
\* exhausted, and OPEN with opened_at 0.
Stuck ==
  \/ /\ Persisted.state = HALF_OPEN
     /\ Persisted.half_open_probes >= HalfOpenMaxProbes
  \/ /\ Persisted.state = OPEN
     /\ Persisted.opened_at = <<0>>

\* From every other state some later check_state lets a request through.
C39_UnlessStuck == call[1].quiet ~> (LetThrough \/ Stuck)

-----------------------------------------------------------------------------
(* Claims about the deadlines of the nonce cache.                          *)

\* The middleware has just called check_and_add: the request was admitted
\* or refused as a replay.
NonceChecked ==
  /\ pc = "pending"
  /\ pc' = "done"
  /\ resp'.admitted \/ resp'.error = "REPLAY_DETECTED"

\* C40: with one ttl for every admission, the deadlines stored in the
\* nonce cache are non-decreasing in insertion order, and immediately after
\* each check_and_add every entry that remains in the cache has a deadline
\* not earlier than the time of that call: the expiry scan, which stops at
\* the first entry that has not expired, misses nothing.
C40_DeadlinesSorted ==
  /\ [](\A i \in 1 .. Len(cache) - 1 : cache[i].expiry <= cache[i + 1].expiry)
  /\ [][NonceChecked =>
          \A i \in 1 .. Len(cache') : cache'[i].expiry >= mono]_vars

\* A check_and_add has admitted a nonce after two nonces admitted before
\* have expired: the cache holds the new entry only.
C40_Witness ==
  /\ pc = "done"
  /\ resp.admitted
  /\ mono > Ttl
  /\ Len(cache) = 1
  /\ cache[1].nonce = req.nonce
  /\ cache[1].expiry = mono + Ttl
  /\ Cardinality({n \in NonceIds : admitTime[n] >= 0 /\ admitTime[n] + Ttl < mono}) >= 2

====
